---- MODULE Spec2Model ----
(***************************************************************************)
(* croncheck: the cron-expression parser (src/src/parse.ts) and the        *)
(* calendar engine (src/src/match.ts): isTimeMatch, getNextValidDate and   *)
(* getFutureMatches.  Dates are civil UTC records (TZDate with the default *)
(* timezone "UTC"); the JavaScript Date setters are modelled with their    *)
(* overflow semantics (setMinutes(60) carries into the hour, setMonth on   *)
(* day 31 of a shorter month carries into the following month).            *)
(***************************************************************************)
EXTENDS Integers, Sequences, FiniteSets, TLC

VARIABLES
    input,        \* the string handed to parse
    parsed,       \* the ParsedCronExpression returned by parse
    options,      \* the MatchOptions handed to getFutureMatches
    matches,      \* getFutureMatches: const matches: Date[]
    currentDate,  \* getFutureMatches: let currentDate
    loopCount,    \* getFutureMatches: let loopCount
    lastScan,     \* day-loop iterations executed by the latest getNextValidDate
    consulted,    \* the instants matchValidator has been called with, in order
    args,         \* the arguments of a call of one function of match.ts
    returnValue,  \* what that call returned
    pc            \* position: "start", "parsed", "loop", "done", "hang";
                  \* "call", "returned" for a call of one function

vars ==
    <<input, parsed, options, matches, currentDate, loopCount, lastScan,
      consulted, args, returnValue, pc>>

(***************************************************************************)
(* JavaScript numbers                                                      *)
(***************************************************************************)

\* Number.NaN, as produced by Number.parseInt on a string with no digits.
NaN == -1000000

isNaN(x) == x = NaN

\* What `info.alias[key]` is for a key inherited from Object.prototype: an
\* object, not a number.
ObjectRef == -2000000

Min2(a, b) == IF a < b THEN a ELSE b

Max2(a, b) == IF a > b THEN a ELSE b

\* Math.floor(a / b) for b # 0.
FloorDiv(a, b) == IF b > 0 THEN a \div b ELSE (0 - a) \div (0 - b)

\* a % b of JavaScript for a >= 0 and b # 0: the sign of the dividend.
JsRem(a, b) == IF b > 0 THEN a % b ELSE a % (0 - b)

includes(seq, v) == \E i \in DOMAIN seq : seq[i] = v

RECURSIVE MinOf(_)
\* Math.min(...values) of a non-empty array.
MinOf(seq) ==
    IF Len(seq) = 1 THEN seq[1] ELSE Min2(seq[1], MinOf(Tail(seq)))

(***************************************************************************)
(* Calendar primitives (date-fns, Date): proleptic Gregorian calendar,     *)
(* day numbers counted from 2000-01-01 (a Saturday).                       *)
(***************************************************************************)

isLeapYear(y) == (y % 4 = 0 /\ y % 100 # 0) \/ y % 400 = 0

DaysInMonthOf(y, m) ==
    IF m = 2 THEN (IF isLeapYear(y) THEN 29 ELSE 28)
    ELSE IF m \in {4, 6, 9, 11} THEN 30 ELSE 31

DaysBeforeYear(y) ==
    365 * (y - 2000)
        + ((y - 1) \div 4 - (y - 1) \div 100 + (y - 1) \div 400) - 484

DaysBeforeMonth(y, m) ==
    <<0, 31, 59, 90, 120, 151, 181, 212, 243, 273, 304, 334>>[m]
        + (IF m > 2 /\ isLeapYear(y) THEN 1 ELSE 0)

\* MakeDay of ECMAScript: the day d of month m of year y, d possibly outside
\* the month (it then carries into the neighbouring months).
DayNumber(y, m, d) == DaysBeforeYear(y) + DaysBeforeMonth(y, m) + d - 1

RECURSIVE YearOfDay(_, _)
YearOfDay(y, n) == IF DaysBeforeYear(y + 1) <= n THEN YearOfDay(y + 1, n) ELSE y

\* The month of the r-th day (from 0) of year y.
MonthOfDay(y, r) ==
    CHOOSE k \in 1..12 :
        /\ DaysBeforeMonth(y, k) <= r
        /\ r < DaysBeforeMonth(y, k) + DaysInMonthOf(y, k)

DateInMonth(y, m, r, mod, s, ms) ==
    [year |-> y, month |-> m, date |-> r - DaysBeforeMonth(y, m) + 1,
     hours |-> mod \div 60, minutes |-> mod % 60, seconds |-> s, ms |-> ms]

DateInYear(y, r, mod, s, ms) == DateInMonth(y, MonthOfDay(y, r), r, mod, s, ms)

DateOfDay(dn, y, mod, s, ms) == DateInYear(y, dn - DaysBeforeYear(y), mod, s, ms)

\* The civil date record of day number n at minute-of-day mins (any integer:
\* it carries into the days), with seconds s and milliseconds ms.
MakeDate(n, mins, s, ms) ==
    DateOfDay(n + (mins \div 1440),
              YearOfDay(2000 + ((n + (mins \div 1440)) \div 366),
                        n + (mins \div 1440)),
              mins % 1440, s, ms)

DayOf(d) == DayNumber(d.year, d.month, d.date)

MinuteOfDay(d) == d.hours * 60 + d.minutes

\* Minutes since 2000-01-01T00:00Z.
AbsMinute(d) == DayOf(d) * 1440 + MinuteOfDay(d)

\* a is an earlier instant than b.
Before(a, b) ==
    \/ AbsMinute(a) < AbsMinute(b)
    \/ /\ AbsMinute(a) = AbsMinute(b)
       /\ a.seconds * 1000 + a.ms < b.seconds * 1000 + b.ms

getMinutes(d) == d.minutes

getHours(d) == d.hours

getDate(d) == d.date

\* 0-based, as Date.prototype.getMonth.
getMonth(d) == d.month - 1

getFullYear(d) == d.year

\* Sunday = 0.
getDay(d) == (DayOf(d) + 6) % 7

getDaysInMonth(d) == DaysInMonthOf(d.year, d.month)

setMinutes(d, v) == MakeDate(DayOf(d), d.hours * 60 + v, d.seconds, d.ms)

setHours(d, v) == MakeDate(DayOf(d), v * 60 + d.minutes, d.seconds, d.ms)

setSeconds(d, v) == [d EXCEPT !.seconds = v]

setMilliseconds(d, v) == [d EXCEPT !.ms = v]

setDate(d, v) ==
    MakeDate(DayNumber(d.year, d.month, v), MinuteOfDay(d), d.seconds, d.ms)

\* m0 is 0-based; the day of the month is kept and may overflow the month.
setMonth(d, m0) ==
    MakeDate(DayNumber(d.year, m0 + 1, d.date), MinuteOfDay(d), d.seconds, d.ms)

setFullYear(d, y) ==
    MakeDate(DayNumber(y, d.month, d.date), MinuteOfDay(d), d.seconds, d.ms)

addDays(d, n) == MakeDate(DayOf(d) + n, MinuteOfDay(d), d.seconds, d.ms)

startOfMonth(d) == MakeDate(DayNumber(d.year, d.month, 1), 0, 0, 0)

endOfMonth(d) ==
    MakeDate(DayNumber(d.year, d.month, getDaysInMonth(d)), 1439, 59, 999)

isWeekend(d) == getDay(d) = 0 \/ getDay(d) = 6

(***************************************************************************)
(* CronMatch (types.ts).  An optional array that is absent is the empty    *)
(* sequence and an optional flag that is absent is FALSE: parseField never *)
(* leaves an array present and empty.                                      *)
(***************************************************************************)

EmptyMatch ==
    [all |-> FALSE, omit |-> FALSE, ranges |-> <<>>, steps |-> <<>>,
     nthDays |-> <<>>, values |-> <<>>, lastDay |-> FALSE, lastDays |-> <<>>,
     lastWeekday |-> FALSE, nearestWeekdays |-> <<>>]

AnyMatch == [EmptyMatch EXCEPT !.all = TRUE]

OmitMatch == [EmptyMatch EXCEPT !.omit = TRUE]

(***************************************************************************)
(* match.ts: the per-field matcher                                         *)
(***************************************************************************)

RECURSIVE LastWeekdayFrom(_)
LastWeekdayFrom(lastDay) ==
    IF isWeekend(lastDay) THEN LastWeekdayFrom(addDays(lastDay, -1))
    ELSE getDate(lastDay)

getLastWeekdayOfMonth(date) == LastWeekdayFrom(endOfMonth(date))

\* The returns of resolveNearestWeekday, candidate being day clampedDay.
nearestWeekdayOf(candidate, clampedDay, daysInMonth) ==
    IF getDay(candidate) = 0
    THEN IF clampedDay = daysInMonth
         THEN getDate(addDays(candidate, -2))
         ELSE getDate(addDays(candidate, 1))
    ELSE IF getDay(candidate) = 6
    THEN IF clampedDay = 1
         THEN getDate(addDays(candidate, 2))
         ELSE getDate(addDays(candidate, -1))
    ELSE getDate(candidate)

\* A variant of resolveNearestWeekday without the tests of the month
\* boundaries: it leaves the month from a Saturday on day 1 and from a Sunday
\* on the last day.
resolveNearestWeekdayPlain(targetDay, date) ==
    LET clampedDay == Min2(Max2(targetDay, 1), getDaysInMonth(date))
        candidate == addDays(startOfMonth(date), clampedDay - 1)
    IN  IF getDay(candidate) = 0 THEN getDate(addDays(candidate, 1))
        ELSE IF getDay(candidate) = 6 THEN getDate(addDays(candidate, -1))
        ELSE getDate(candidate)

\* NaN when targetDay is NaN: Math.min/Math.max and addDays propagate it.
resolveNearestWeekday(targetDay, date) ==
    IF isNaN(targetDay) THEN NaN
    ELSE nearestWeekdayOf(
             addDays(startOfMonth(date),
                     Min2(Max2(targetDay, 1), getDaysInMonth(date)) - 1),
             Min2(Max2(targetDay, 1), getDaysInMonth(date)),
             getDaysInMonth(date))

\* A variant of the callback below without its first test: a step of 0
\* reaches the test of from and value, and value % 0 is NaN.
stepMatchesUnguarded(step, value) ==
    IF value < step.from \/ value > step.to THEN FALSE
    ELSE IF step.from = 0 /\ value = 0 THEN TRUE
    ELSE IF isNaN(step.step) \/ step.step = 0 THEN FALSE
    ELSE value - step.from >= 0 /\ JsRem(value - step.from, step.step) = 0

\* The callback of match.steps.some(...).
stepMatches(step, value) ==
    IF step.step = 0 THEN FALSE
    ELSE IF value < step.from \/ value > step.to THEN FALSE
    ELSE IF step.from = 0 /\ value = 0 THEN TRUE
    ELSE IF isNaN(step.step) THEN FALSE
    ELSE value - step.from >= 0 /\ JsRem(value - step.from, step.step) = 0

\* A variant of the callback below that takes (dow - firstDowOfMonth) % 7
\* without adding 7: the remainder is negative when the month begins later
\* in the week than dow.
nthDayMatchesNoWrap(nth, date) ==
    LET dow == getDay(date)
        diff == dow - getDay(startOfMonth(date))
        firstOccurrenceDay ==
            (IF diff >= 0 THEN diff % 7 ELSE 0 - ((0 - diff) % 7)) + 1
    IN  IF dow # nth.day_of_week THEN FALSE
        ELSE FloorDiv(getDate(date) - firstOccurrenceDay, 7) + 1 = nth.instance

\* The callback of match.nthDays.some(...).
nthDayMatches(nth, date) ==
    LET dow == getDay(date)
        dayOfMonth == getDate(date)
        firstDowOfMonth == getDay(startOfMonth(date))
        daysToFirstOccurrence == (dow - firstDowOfMonth + 7) % 7
        firstOccurrenceDay == daysToFirstOccurrence + 1
        instance == ((dayOfMonth - firstOccurrenceDay) \div 7) + 1
    IN  IF dow # nth.day_of_week THEN FALSE ELSE instance = nth.instance

\* The right operands of the `%` that isFieldMatch(value, match, ...)
\* evaluates: match.steps.some(...) is reached when no value and no range
\* has accepted, it stops at the first step that accepts, and the callback
\* reaches `normalizedValue % step.step` past its three returns and past
\* `normalizedValue >= 0 &&`.
stepModuloDivisors(match, value) ==
    IF \/ match.omit \/ match.all \/ includes(match.values, value)
       \/ \E i \in DOMAIN match.ranges :
              value >= match.ranges[i].from /\ value <= match.ranges[i].to
    THEN {}
    ELSE {match.steps[i].step :
            i \in {k \in DOMAIN match.steps :
                     /\ \A j \in 1..(k - 1) : ~stepMatches(match.steps[j], value)
                     /\ match.steps[k].step # 0
                     /\ ~(value < match.steps[k].from \/ value > match.steps[k].to)
                     /\ ~(match.steps[k].from = 0 /\ value = 0)
                     /\ value - match.steps[k].from >= 0}}

RECURSIVE LastOccurrenceFrom(_, _)
LastOccurrenceFrom(current, value) ==
    IF getDay(current) # value
    THEN LastOccurrenceFrom(addDays(current, -1), value)
    ELSE current

\* Each test of the source returns as soon as it decides; the nthDays test
\* returns its own result and the lastDays test is reached only without it.
isFieldMatch(value, match, field, date) ==
    IF match.omit THEN TRUE
    ELSE IF match.all THEN TRUE
    ELSE IF includes(match.values, value) THEN TRUE
    ELSE IF \E i \in DOMAIN match.ranges :
                value >= match.ranges[i].from /\ value <= match.ranges[i].to
    THEN TRUE
    ELSE IF \E i \in DOMAIN match.steps : stepMatches(match.steps[i], value)
    THEN TRUE
    ELSE IF field = "day_of_month"
              /\ match.lastDay /\ value = getDate(endOfMonth(date))
    THEN TRUE
    ELSE IF field = "day_of_month"
              /\ match.lastWeekday /\ value = getLastWeekdayOfMonth(date)
    THEN TRUE
    ELSE IF field = "day_of_month" /\ Len(match.nearestWeekdays) > 0
    THEN \E i \in DOMAIN match.nearestWeekdays :
             value = resolveNearestWeekday(match.nearestWeekdays[i], date)
    ELSE IF field = "day_of_week" /\ Len(match.nthDays) > 0
    THEN \E i \in DOMAIN match.nthDays : nthDayMatches(match.nthDays[i], date)
    ELSE IF field = "day_of_week" /\ Len(match.lastDays) > 0
    THEN IF ~includes(match.lastDays, value) THEN FALSE
         ELSE getDate(date) = getDate(LastOccurrenceFrom(endOfMonth(date), value))
    ELSE FALSE

\* A variant of isTimeMatch whose day rule, when both day fields are
\* constrained, requires both of them; DayRuleTruthTable does not hold of it.
isTimeMatchBoth(expression, date) ==
    /\ isFieldMatch(getMinutes(date), expression.minute, "minute", date)
    /\ isFieldMatch(getHours(date), expression.hour, "hour", date)
    /\ isFieldMatch(getMonth(date) + 1, expression.month, "month", date)
    /\ \/ expression.day_of_month.all
       \/ expression.day_of_month.omit
       \/ isFieldMatch(getDate(date), expression.day_of_month,
                       "day_of_month", date)
    /\ \/ expression.day_of_week.all
       \/ expression.day_of_week.omit
       \/ isFieldMatch(getDay(date), expression.day_of_week,
                       "day_of_week", date)

isTimeMatch(expression, date) ==
    LET minuteValue == getMinutes(date)
        hourValue == getHours(date)
        dayOfMonthValue == getDate(date)
        monthValue == getMonth(date) + 1
        dayOfWeekValue == getDay(date)
        dayOfMonthMatch == expression.day_of_month
        dayOfWeekMatch == expression.day_of_week
        isDayOfMonthAny == dayOfMonthMatch.all \/ dayOfMonthMatch.omit
        isDayOfWeekAny == dayOfWeekMatch.all \/ dayOfWeekMatch.omit
    IN  IF ~isFieldMatch(minuteValue, expression.minute, "minute", date)
        THEN FALSE
        ELSE IF ~isFieldMatch(hourValue, expression.hour, "hour", date)
        THEN FALSE
        ELSE IF ~isFieldMatch(monthValue, expression.month, "month", date)
        THEN FALSE
        ELSE IF isDayOfMonthAny /\ isDayOfWeekAny THEN TRUE
        ELSE IF isDayOfWeekAny
        THEN isFieldMatch(dayOfMonthValue, dayOfMonthMatch, "day_of_month", date)
        ELSE IF isDayOfMonthAny
        THEN isFieldMatch(dayOfWeekValue, dayOfWeekMatch, "day_of_week", date)
        ELSE \/ isFieldMatch(getDate(date), dayOfMonthMatch, "day_of_month", date)
             \/ isFieldMatch(dayOfWeekValue, dayOfWeekMatch, "day_of_week", date)

(***************************************************************************)
(* match.ts: helpers of the forward search                                 *)
(***************************************************************************)

\* (a, b) => a - b is positive.  With an operand that is no number a - b is
\* NaN, which sort takes as 0.
comparesGreater(a, b) == a # ObjectRef /\ b # ObjectRef /\ a - b > 0

RECURSIVE InsertSorted(_, _)
\* v, placed after the sorted seq, moves left past the elements that compare
\* greater: the insertion sort of a short array, which is stable.
InsertSorted(seq, v) ==
    IF seq = <<>> THEN <<v>>
    ELSE IF comparesGreater(seq[Len(seq)], v)
    THEN Append(InsertSorted(SubSeq(seq, 1, Len(seq) - 1), v), seq[Len(seq)])
    ELSE Append(seq, v)

RECURSIVE SortAsc(_)
\* Array.prototype.sort((a, b) => a - b).
SortAsc(seq) ==
    IF seq = <<>> THEN <<>>
    ELSE InsertSorted(SortAsc(SubSeq(seq, 1, Len(seq) - 1)), seq[Len(seq)])

RECURSIVE PushRange(_, _, _)
\* for (let m = from; m <= to; m++) if (!acc.includes(m)) acc.push(m)
PushRange(acc, m, to) ==
    IF m > to THEN acc
    ELSE PushRange(IF includes(acc, m) THEN acc ELSE Append(acc, m), m + 1, to)

RECURSIVE PushStep(_, _, _, _)
\* for (let m = from; m <= to; m += step) ..., for step > 0
PushStep(acc, m, to, step) ==
    IF m > to THEN acc
    ELSE PushStep(IF includes(acc, m) THEN acc ELSE Append(acc, m),
                  m + step, to, step)

RECURSIVE PushSteps(_, _)
PushSteps(acc, steps) ==
    IF steps = <<>> THEN acc
    ELSE LET step == steps[1]
         IN  IF step.step = 0 THEN PushSteps(acc, Tail(steps))
             ELSE IF isNaN(step.step)
             THEN PushSteps(PushRange(acc, step.from,
                                      Min2(step.from, step.to)), Tail(steps))
             ELSE PushSteps(PushStep(acc, step.from, step.to, step.step),
                            Tail(steps))

RECURSIVE PushRanges(_, _)
PushRanges(acc, ranges) ==
    IF ranges = <<>> THEN acc
    ELSE PushRanges(PushRange(acc, ranges[1].from, ranges[1].to), Tail(ranges))

\* The loop `for (m = step.from; m <= step.to; m += step.step)` never ends
\* when step.step < 0 and step.from <= step.to.
monthLoopDiverges(match) ==
    \E i \in DOMAIN match.steps :
        /\ ~isNaN(match.steps[i].step)
        /\ match.steps[i].step < 0
        /\ match.steps[i].from <= match.steps[i].to

RECURSIVE FindFirst(_, _)
\* validMonths.find((m) => m >= currentMonth); NaN stands for undefined.
FindFirst(seq, currentMonth) ==
    IF seq = <<>> THEN NaN
    ELSE IF seq[1] >= currentMonth THEN seq[1]
    ELSE FindFirst(Tail(seq), currentMonth)

\* The returns of getNextMatchingMonth once validMonths is sorted.
nextOfValidMonths(validMonths, currentMonth) ==
    IF Len(validMonths) = 0
    THEN [month |-> currentMonth, wrapped |-> FALSE, diverges |-> FALSE]
    ELSE IF ~isNaN(FindFirst(validMonths, currentMonth))
    THEN [month |-> FindFirst(validMonths, currentMonth),
          wrapped |-> FALSE, diverges |-> FALSE]
    ELSE [month |-> validMonths[1], wrapped |-> TRUE, diverges |-> FALSE]

getNextMatchingMonth(currentMonth, match) ==
    IF match.all \/ match.omit
    THEN [month |-> currentMonth, wrapped |-> FALSE, diverges |-> FALSE]
    ELSE IF monthLoopDiverges(match)
    THEN [month |-> currentMonth, wrapped |-> FALSE, diverges |-> TRUE]
    ELSE nextOfValidMonths(
             SortAsc(PushSteps(PushRanges(match.values, match.ranges),
                               match.steps)),
             currentMonth)

RECURSIVE MinFrom(_, _)
\* for (const r of list) minVal = Math.min(minVal, r.from)
MinFrom(minVal, list) ==
    IF list = <<>> THEN minVal
    ELSE MinFrom(Min2(minVal, list[1].from), Tail(list))

\* return minDay < 32 ? minDay : undefined; NaN stands for undefined.
below32(minDay) == IF minDay < 32 THEN minDay ELSE NaN

getFirstValidDayOfMonth(match) ==
    IF match.lastDay \/ match.lastWeekday \/ Len(match.nearestWeekdays) > 0
    THEN NaN
    ELSE below32(
             MinFrom(MinFrom(IF Len(match.values) > 0
                             THEN Min2(32, MinOf(match.values)) ELSE 32,
                             match.ranges),
                     match.steps))

getFirstValidFieldValue(match, min, max) ==
    IF match.all \/ match.omit THEN min
    ELSE IF Len(match.values) > 0 THEN MinOf(match.values)
    ELSE IF Len(match.ranges) > 0 THEN MinFrom(max + 1, match.ranges)
    ELSE IF Len(match.steps) > 0 THEN MinFrom(max + 1, match.steps)
    ELSE min

RECURSIVE FindGreater(_, _)
\* match.values.find((v) => v > currentValue); NaN stands for undefined.
FindGreater(seq, currentValue) ==
    IF seq = <<>> THEN NaN
    ELSE IF seq[1] > currentValue THEN seq[1]
    ELSE FindGreater(Tail(seq), currentValue)

RECURSIVE NextInRanges(_, _)
\* The for loop over match.ranges; NaN when it falls through.
NextInRanges(ranges, currentValue) ==
    IF ranges = <<>> THEN NaN
    ELSE IF currentValue < ranges[1].from THEN ranges[1].from
    ELSE IF currentValue >= ranges[1].from /\ currentValue < ranges[1].to
    THEN currentValue + 1
    ELSE NextInRanges(Tail(ranges), currentValue)

RECURSIVE NextInSteps(_, _)
\* The for loop over match.steps; NaN when it falls through.
NextInSteps(steps, currentValue) ==
    IF steps = <<>> THEN NaN
    ELSE
    LET step == steps[1]
    IN  IF step.step = 0 THEN NextInSteps(Tail(steps), currentValue)
        ELSE IF currentValue < step.from THEN step.from
        ELSE IF /\ currentValue >= step.from /\ currentValue <= step.to
                /\ ~isNaN(step.step)
                /\ step.from
                     + (FloorDiv(currentValue - step.from, step.step) + 1)
                         * step.step <= step.to
        THEN step.from
                 + (FloorDiv(currentValue - step.from, step.step) + 1) * step.step
        ELSE NextInSteps(Tail(steps), currentValue)

RECURSIVE stepQuotientDivisors(_, _)
\* The divisors of the `/` that the for loop over match.steps evaluates,
\* up to the pass that returns.
stepQuotientDivisors(steps, currentValue) ==
    IF steps = <<>> THEN {}
    ELSE IF steps[1].step = 0
    THEN stepQuotientDivisors(Tail(steps), currentValue)
    ELSE IF currentValue < steps[1].from THEN {}
    ELSE IF currentValue >= steps[1].from /\ currentValue <= steps[1].to
    THEN {steps[1].step}
             \cup (IF isNaN(NextInSteps(<<steps[1]>>, currentValue))
                   THEN stepQuotientDivisors(Tail(steps), currentValue)
                   ELSE {})
    ELSE stepQuotientDivisors(Tail(steps), currentValue)

getNextValidField(currentValue, match, min, max, wrapAround) ==
    IF match.all THEN currentValue + 1
    ELSE IF Len(match.values) > 0
    THEN LET nextValue == FindGreater(match.values, currentValue)
         IN  IF ~isNaN(nextValue) THEN nextValue
             ELSE IF wrapAround THEN match.values[1] ELSE max + 1
    ELSE IF Len(match.ranges) > 0
    THEN LET inRange == NextInRanges(match.ranges, currentValue)
         IN  IF ~isNaN(inRange) THEN inRange
             ELSE IF wrapAround THEN match.ranges[1].from ELSE max + 1
    ELSE IF Len(match.steps) > 0 /\ ~isNaN(NextInSteps(match.steps, currentValue))
    THEN NextInSteps(match.steps, currentValue)
    ELSE IF Len(match.steps) > 0 /\ wrapAround /\ match.steps[1].step # 0
    THEN match.steps[1].from
    ELSE currentValue + 1

(***************************************************************************)
(* match.ts: getNextValidDate                                              *)
(***************************************************************************)

isDayOfMonthAnyOf(expression) ==
    expression.day_of_month.all \/ expression.day_of_month.omit

isDayOfWeekAnyOf(expression) ==
    expression.day_of_week.all \/ expression.day_of_week.omit

isEveryMinute(expression) ==
    /\ expression.minute.all
    /\ expression.hour.all
    /\ isDayOfMonthAnyOf(expression)
    /\ expression.month.all
    /\ isDayOfWeekAnyOf(expression)

\* let dayMatches, computed on nextDate before the time is advanced.
dayMatchesOf(expression, nextDate) ==
    LET currentDayOfMonth == getDate(nextDate)
        currentDayOfWeek == getDay(nextDate)
        currentMonthVal == getMonth(nextDate) + 1
        monthOk == isFieldMatch(currentMonthVal, expression.month, "month", nextDate)
        domOk == isFieldMatch(currentDayOfMonth, expression.day_of_month,
                              "day_of_month", nextDate)
        dowOk == isFieldMatch(currentDayOfWeek, expression.day_of_week,
                              "day_of_week", nextDate)
    IN  IF isDayOfMonthAnyOf(expression) /\ isDayOfWeekAnyOf(expression)
        THEN monthOk
        ELSE IF isDayOfWeekAnyOf(expression) THEN monthOk /\ domOk
        ELSE IF isDayOfMonthAnyOf(expression) THEN monthOk /\ dowOk
        ELSE monthOk /\ (domOk \/ dowOk)

\* let daysToTry = 366 * 4
daysToTryInit == 366 * 4

\* The month of day0 does not match: jump to day 1 of the next matching
\* month, next being the result of getNextMatchingMonth.
monthJump(entered, day0, month, next) ==
    IF next.diverges
    THEN [entered EXCEPT !.diverges = TRUE, !.done = TRUE]
    ELSE [entered EXCEPT
             !.nextDate =
                 setDate(
                     setMonth(IF next.wrapped \/ next.month < month
                              THEN setFullYear(day0, getFullYear(day0) + 1)
                              ELSE day0,
                              next.month - 1),
                     1),
             !.skipAddDay = TRUE]

\* The body of the day loop once nextDate is day0, at 00:00 of the day tried.
dayLoopBody(entered, day0, expression, firstValidDayOfMonth) ==
    IF ~isFieldMatch(getMonth(day0) + 1, expression.month, "month", day0)
    THEN monthJump(entered, day0, getMonth(day0) + 1,
                   getNextMatchingMonth(
                       IF getMonth(day0) + 1 + 1 > 12 THEN 1
                       ELSE getMonth(day0) + 1 + 1,
                       expression.month))
    ELSE IF isDayOfMonthAnyOf(expression) /\ isDayOfWeekAnyOf(expression)
    THEN [entered EXCEPT !.done = TRUE]
    ELSE IF isDayOfWeekAnyOf(expression)
    THEN IF isFieldMatch(getDate(day0), expression.day_of_month,
                         "day_of_month", day0)
         THEN [entered EXCEPT !.done = TRUE]
         ELSE IF /\ ~isNaN(firstValidDayOfMonth)
                 /\ getDate(day0) < firstValidDayOfMonth
                 /\ firstValidDayOfMonth <= getDaysInMonth(day0)
         THEN [entered EXCEPT !.nextDate = setDate(day0, firstValidDayOfMonth),
                              !.skipAddDay = TRUE]
         ELSE entered
    ELSE IF isDayOfMonthAnyOf(expression)
    THEN IF isFieldMatch(getDay(day0), expression.day_of_week,
                         "day_of_week", day0)
         THEN [entered EXCEPT !.done = TRUE]
         ELSE entered
    ELSE IF \/ isFieldMatch(getDate(day0), expression.day_of_month,
                            "day_of_month", day0)
            \/ isFieldMatch(getDay(day0), expression.day_of_week,
                            "day_of_week", day0)
    THEN [entered EXCEPT !.done = TRUE]
    ELSE entered

\* The loop state on entering the body: daysToTry-- and skipAddDay = false,
\* nextDate being day0.
enterDay(st, day0) ==
    [st EXCEPT !.daysToTry = @ - 1, !.scanned = @ + 1,
               !.skipAddDay = FALSE, !.nextDate = day0]

\* One pass of `while (daysToTry-- > 0) { ... }`.  st.done: the loop was
\* left (break, or the test failed); st.diverges: getNextMatchingMonth does
\* not return; st.scanned counts the passes through the body.
dayLoopStep(st, day0, expression, firstValidDayOfMonth) ==
    IF st.daysToTry <= 0 THEN [st EXCEPT !.done = TRUE]
    ELSE dayLoopBody(enterDay(st, day0), day0, expression, firstValidDayOfMonth)

RECURSIVE runDayLoop(_, _, _, _)
\* At most n passes of the loop from st, stopping when it is left.
runDayLoop(st, n, expression, firstValidDayOfMonth) ==
    IF st.done THEN st
    ELSE IF n <= 1
    THEN dayLoopStep(st,
                     setMinutes(
                         setHours(IF ~st.skipAddDay THEN addDays(st.nextDate, 1)
                                  ELSE st.nextDate, 0), 0),
                     expression, firstValidDayOfMonth)
    ELSE runDayLoop(runDayLoop(st, n \div 2, expression, firstValidDayOfMonth),
                    n - (n \div 2), expression, firstValidDayOfMonth)

\* What getNextValidDate gives: [date: the returned TZDate, diverges: the call
\* does not return, scanned: passes through the body of the day loop].
returns(d) == [date |-> d, diverges |-> FALSE, scanned |-> 0]

\* After the day loop: the first valid hour and minute of the day found.
afterDayLoop(loop, expression) ==
    IF loop.diverges
    THEN [date |-> loop.nextDate, diverges |-> TRUE, scanned |-> loop.scanned]
    ELSE [date |->
              setMinutes(
                  setHours(loop.nextDate,
                           getFirstValidFieldValue(expression.hour, 0, 23)),
                  getFirstValidFieldValue(expression.minute, 0, 59)),
          diverges |-> FALSE, scanned |-> loop.scanned]

\* "If we got here, we need to advance at least one day".
advanceDay(nextDate, expression) ==
    afterDayLoop(
        runDayLoop([nextDate |-> nextDate, skipAddDay |-> FALSE,
                    daysToTry |-> daysToTryInit, done |-> FALSE,
                    diverges |-> FALSE, scanned |-> 0],
                   daysToTryInit + 1, expression,
                   IF isDayOfWeekAnyOf(expression)
                   THEN getFirstValidDayOfMonth(expression.day_of_month)
                   ELSE NaN),
        expression)

\* "If minute didn't change or we need to move to the next hour".
advanceHour(currentHour, nextHour, nextDate, expression) ==
    IF nextHour > currentHour
    THEN returns(setMinutes(setHours(nextDate, nextHour),
                            getFirstValidFieldValue(expression.minute, 0, 59)))
    ELSE advanceDay(nextDate, expression)

\* nextMinute < currentMinute: carried is nextDate moved to the next hour.
advanceCarried(date, carried, currentDayOfMonth, expression) ==
    IF getDate(carried) = currentDayOfMonth THEN returns(carried)
    ELSE advanceHour(getHours(date),
                     getNextValidField(getHours(date), expression.hour, 0, 23, TRUE),
                     carried, expression)

\* if (dayMatches) { ... }, then the day iteration.
advanceTime(date, nextDate, dayMatches, nextMinute, expression) ==
    IF dayMatches /\ nextMinute > getMinutes(date)
    THEN returns(setMinutes(nextDate, nextMinute))
    ELSE IF dayMatches /\ nextMinute < getMinutes(date)
    THEN advanceCarried(date,
                        setMinutes(setHours(nextDate, getHours(nextDate) + 1),
                                   nextMinute),
                        getDate(nextDate), expression)
    ELSE IF dayMatches
    THEN advanceHour(getHours(date),
                     getNextValidField(getHours(date), expression.hour, 0, 23, TRUE),
                     nextDate, expression)
    ELSE advanceDay(nextDate, expression)

\* getNextValidDate once nextDate is currentDate plus one minute.
advanceFrom(date, nextDate, expression) ==
    IF isEveryMinute(expression) THEN returns(nextDate)
    ELSE advanceTime(date, nextDate, dayMatchesOf(expression, nextDate),
                     getNextValidField(getMinutes(date), expression.minute,
                                       0, 59, TRUE),
                     expression)

getNextValidDate(date, expression) ==
    advanceFrom(date,
                setMilliseconds(
                    setSeconds(setMinutes(date, getMinutes(date) + 1), 0), 0),
                expression)

(***************************************************************************)
(* JavaScript strings                                                      *)
(***************************************************************************)

CharAt(s, i) == SubSeq(s, i, i)

\* s.slice(i - 1): the suffix from the i-th character.
From(s, i) == SubSeq(s, i, Len(s))

IsWhitespace(c) == c \in {" ", "\t", "\n"}

IsDigit(c) == c \in {"0", "1", "2", "3", "4", "5", "6", "7", "8", "9"}

DigitValue(c) ==
    (CHOOSE i \in 1..10 : CharAt("0123456789", i) = c) - 1

IsUpper(c) == \E i \in 1..26 : CharAt("ABCDEFGHIJKLMNOPQRSTUVWXYZ", i) = c

IsLower(c) == \E i \in 1..26 : CharAt("abcdefghijklmnopqrstuvwxyz", i) = c

\* \w of a regular expression.
IsWordChar(c) == IsUpper(c) \/ IsLower(c) \/ IsDigit(c) \/ c = "_"

LowerChar(c) ==
    IF IsUpper(c)
    THEN CharAt("abcdefghijklmnopqrstuvwxyz",
                CHOOSE i \in 1..26 : CharAt("ABCDEFGHIJKLMNOPQRSTUVWXYZ", i) = c)
    ELSE c

RECURSIVE toLowerCase(_)
toLowerCase(s) ==
    IF s = "" THEN "" ELSE LowerChar(CharAt(s, 1)) \o toLowerCase(From(s, 2))

startsWith(s, p) == Len(s) >= Len(p) /\ SubSeq(s, 1, Len(p)) = p

endsWith(s, p) == Len(s) >= Len(p) /\ SubSeq(s, Len(s) - Len(p) + 1, Len(s)) = p

strIncludes(s, c) == \E i \in 1..Len(s) : CharAt(s, i) = c

\* s.slice(0, -n)
dropLast(s, n) == SubSeq(s, 1, Len(s) - n)

RECURSIVE trim(_)
trim(s) ==
    IF s = "" THEN ""
    ELSE IF IsWhitespace(CharAt(s, 1)) THEN trim(From(s, 2))
    ELSE IF IsWhitespace(CharAt(s, Len(s))) THEN trim(dropLast(s, 1))
    ELSE s

RECURSIVE SplitFrom(_, _, _)
\* s.split(sep) for a one-character separator: cur is the piece being read.
SplitFrom(s, sep, cur) ==
    IF s = "" THEN <<cur>>
    ELSE IF CharAt(s, 1) = sep THEN <<cur>> \o SplitFrom(From(s, 2), sep, "")
    ELSE SplitFrom(From(s, 2), sep, cur \o CharAt(s, 1))

split(s, sep) == SplitFrom(s, sep, "")

RECURSIVE SplitSpaceFrom(_, _, _)
\* s.split(/\s+/): a run of whitespace is one separator.
SplitSpaceFrom(s, cur, inRun) ==
    IF s = "" THEN <<cur>>
    ELSE IF IsWhitespace(CharAt(s, 1))
    THEN IF inRun THEN SplitSpaceFrom(From(s, 2), cur, TRUE)
         ELSE <<cur>> \o SplitSpaceFrom(From(s, 2), "", TRUE)
    ELSE SplitSpaceFrom(From(s, 2), cur \o CharAt(s, 1), FALSE)

splitWhitespace(s) == SplitSpaceFrom(s, "", FALSE)

RECURSIVE filterNonEmpty(_)
\* .map((part) => part.trim()).filter((part) => part)
filterNonEmpty(parts) ==
    IF parts = <<>> THEN <<>>
    ELSE IF trim(parts[1]) = "" THEN filterNonEmpty(Tail(parts))
    ELSE <<trim(parts[1])>> \o filterNonEmpty(Tail(parts))

\* The i-th element of a destructured array, "" standing for undefined (the
\* source tests these with `!x` only, which treats both alike).
Nth(parts, i) == IF i <= Len(parts) THEN parts[i] ELSE ""

RECURSIVE DigitsValue(_, _)
\* The value of the longest prefix of digits of s, after acc.
DigitsValue(s, acc) ==
    IF s = "" \/ ~IsDigit(CharAt(s, 1)) THEN acc
    ELSE DigitsValue(From(s, 2), acc * 10 + DigitValue(CharAt(s, 1)))

\* parseInt of a string without leading whitespace.
parseIntTrimmed(t) ==
    IF t # "" /\ CharAt(t, 1) \in {"+", "-"}
    THEN IF Len(t) < 2 \/ ~IsDigit(CharAt(t, 2)) THEN NaN
         ELSE IF CharAt(t, 1) = "-" THEN 0 - DigitsValue(From(t, 2), 0)
         ELSE DigitsValue(From(t, 2), 0)
    ELSE IF t = "" \/ ~IsDigit(CharAt(t, 1)) THEN NaN
    ELSE DigitsValue(t, 0)

\* Number.parseInt(s, 10): leading whitespace, an optional sign, then the
\* longest prefix of digits; NaN if there is none.
parseInt(s) == parseIntTrimmed(trim(s))

(***************************************************************************)
(* parse.ts                                                                *)
(***************************************************************************)

PREDEFINED_EXPRESSIONS ==
    [x \in {"@yearly", "@monthly", "@weekly", "@daily", "@hourly", "@minutely"} |->
        CASE x = "@yearly" -> "0 0 1 1 *"
          [] x = "@monthly" -> "0 0 1 * *"
          [] x = "@weekly" -> "0 0 ? * 0"
          [] x = "@daily" -> "0 0 * * *"
          [] x = "@hourly" -> "0 * * * *"
          [] x = "@minutely" -> "* * * * *"]

FIELD_INFO ==
    [minute |-> [min |-> 0, max |-> 59],
     hour |-> [min |-> 0, max |-> 23],
     day_of_month |-> [min |-> 1, max |-> 31],
     month |-> [min |-> 1, max |-> 12],
     day_of_week |-> [min |-> 0, max |-> 6]]

MonthAlias ==
    <<"jan", "feb", "mar", "apr", "may", "jun",
      "jul", "aug", "sep", "oct", "nov", "dec">>

DayAlias == <<"sun", "mon", "tue", "wed", "thu", "fri", "sat">>

CronFields == <<"minute", "hour", "day_of_month", "month", "day_of_week">>

\* Property names every object literal inherits from Object.prototype and
\* that are their own lower case: `key in info.alias` is true for them.
InheritedKeys == {"constructor", "__proto__"}

hasAlias(field) == field \in {"month", "day_of_week"}

\* cleanValue in info.alias
aliasHas(field, key) ==
    \/ field = "month" /\ includes(MonthAlias, key)
    \/ field = "day_of_week" /\ includes(DayAlias, key)
    \/ key \in InheritedKeys

\* info.alias[cleanValue]
aliasValue(field, key) ==
    IF key \in InheritedKeys THEN ObjectRef
    ELSE IF field = "month"
    THEN CHOOSE i \in 1..12 : MonthAlias[i] = key
    ELSE (CHOOSE i \in 1..7 : DayAlias[i] = key) - 1

\* A value, or the message of the Error that was thrown.
Ok(v) == [ok |-> TRUE, v |-> v]

Throw(msg) == [ok |-> FALSE, error |-> msg]

\* A variant of splitExpression without the table of predefined expressions;
\* MacrosEqualExpansions does not hold of it.
splitExpressionRaw(expression) == filterNonEmpty(splitWhitespace(expression))

splitExpression(expression) ==
    IF /\ startsWith(expression, "@")
       /\ toLowerCase(expression) \in DOMAIN PREDEFINED_EXPRESSIONS
    THEN filterNonEmpty(
             splitWhitespace(PREDEFINED_EXPRESSIONS[toLowerCase(expression)]))
    ELSE filterNonEmpty(splitWhitespace(expression))

validateRange(value, field) ==
    IF value < FIELD_INFO[field].min \/ value > FIELD_INFO[field].max
    THEN Throw("Value [" \o ToString(value) \o "] out of range for field ["
               \o field \o "]. It must be less than or equals to ["
               \o ToString(FIELD_INFO[field].max) \o "].")
    ELSE Ok(value)

\* parseValue with cleanValue = value.toLowerCase() and
\* numValue = Number.parseInt(value, 10).
parseValueOf(value, field, cleanValue, numValue) ==
    IF /\ hasAlias(field)
       /\ aliasHas(field, cleanValue)
       /\ aliasValue(field, cleanValue) # 0
    THEN Ok(aliasValue(field, cleanValue))
    ELSE IF isNaN(numValue)
    THEN Throw("Invalid numeric value [" \o value \o "] for field ["
               \o field \o "]")
    ELSE IF field = "day_of_week" /\ numValue = 7 THEN Ok(0)
    ELSE validateRange(numValue, field)

parseValue(value, field) ==
    parseValueOf(value, field, toLowerCase(value), parseInt(value))

stepFormatError(part, field) ==
    Throw("Invalid step format [" \o part \o "] for field [" \o field
          \o "]. Expected format: \"from/to/step\".")

\* return { from, to, step } once from and to are parsed.
stepOf(from, to, step) ==
    IF ~from.ok THEN from
    ELSE IF ~to.ok THEN to
    ELSE Ok([from |-> from.v, to |-> to.v, step |-> step])

\* parseStep once range is split on "-" into fromStr and toStr.
parseStepRange(part, field, fromStr, toStr, step) ==
    IF fromStr = "" THEN stepFormatError(part, field)
    ELSE stepOf(parseValue(fromStr, field),
                IF toStr # "" THEN parseValue(toStr, field)
                ELSE Ok(IF field = "day_of_week" THEN 7
                        ELSE FIELD_INFO[field].max),
                step)

\* parseStep once part is split on "/" into range and stepStr.
parseStepParts(part, field, range, stepStr) ==
    IF range = "" \/ stepStr = "" THEN stepFormatError(part, field)
    ELSE IF range = "*"
    THEN Ok([from |-> FIELD_INFO[field].min,
             to |-> IF field = "day_of_week" THEN 7 ELSE FIELD_INFO[field].max,
             step |-> parseInt(stepStr)])
    ELSE parseStepRange(part, field, Nth(split(range, "-"), 1),
                        Nth(split(range, "-"), 2), parseInt(stepStr))

parseStep(part, field) ==
    parseStepParts(part, field, Nth(split(part, "/"), 1), Nth(split(part, "/"), 2))

\* return { from, to } once from and to are parsed.
rangeOf(from, to) ==
    IF ~from.ok THEN from
    ELSE IF ~to.ok THEN to
    ELSE Ok([from |-> from.v, to |-> to.v])

parseRangeParts(part, field, fromStr, toStr) ==
    IF fromStr = "" \/ toStr = ""
    THEN Throw("Invalid range format [" \o part \o "] for field [" \o field
               \o "]. Expected format: \"from-to\".")
    ELSE rangeOf(parseValue(fromStr, field), parseValue(toStr, field))

parseRange(part, field) ==
    parseRangeParts(part, field, Nth(split(part, "-"), 1), Nth(split(part, "-"), 2))

\* One new value: pushed unless present, then the array is sorted.
addUniqueValues(values, value) ==
    SortAsc(IF includes(values, value) THEN values ELSE Append(values, value))

\* A variant of addUniqueRanges that keeps the ranges in ascending order of
\* from, as addUniqueValues keeps the values.
addUniqueRangesSorted(ranges, range) ==
    LET notAfter(r) == r.from <= range.from
        after(r) == r.from > range.from
    IN  IF \E i \in DOMAIN ranges :
               ranges[i].from = range.from /\ ranges[i].to = range.to
        THEN ranges
        ELSE SelectSeq(ranges, notAfter) \o <<range>> \o SelectSeq(ranges, after)

\* One new range: pushed unless a range with the same from and to is present.
addUniqueRanges(ranges, range) ==
    IF \E i \in DOMAIN ranges :
           ranges[i].from = range.from /\ ranges[i].to = range.to
    THEN ranges
    ELSE Append(ranges, range)

RECURSIVE FirstWordAt(_, _, _)
\* The index of the first match of /\bkey\b/i in s at or after i, 0 if none.
FirstWordAt(s, key, i) ==
    IF i + Len(key) - 1 > Len(s) THEN 0
    ELSE IF /\ toLowerCase(SubSeq(s, i, i + Len(key) - 1)) = key
            /\ (i = 1 \/ ~IsWordChar(CharAt(s, i - 1)))
            /\ (i + Len(key) > Len(s) \/ ~IsWordChar(CharAt(s, i + Len(key))))
    THEN i
    ELSE FirstWordAt(s, key, i + 1)

\* The replacement of the match at index i (0: no match).
replaceAt(s, key, repl, i) ==
    IF i = 0 THEN s
    ELSE SubSeq(s, 1, i - 1) \o repl \o From(s, i + Len(key))

\* s.replace(new RegExp(`\\b${key}\\b`, "i"), repl): the first match only.
replaceWord(s, key, repl) == replaceAt(s, key, repl, FirstWordAt(s, key, 1))

RECURSIVE normalizeDayNames(_, _)
\* for (const [key, value] of Object.entries(alias)) ..., from the k-th entry.
normalizeDayNames(s, k) ==
    IF k > Len(DayAlias) THEN s
    ELSE normalizeDayNames(replaceWord(s, DayAlias[k], ToString(k - 1)), k + 1)

\* result.lastDays.push(day), day being what parseValue gave.
pushLastDay(result, day) ==
    IF ~day.ok THEN day ELSE Ok([result EXCEPT !.lastDays = Append(@, day.v)])

\* result.nthDays.push({ day_of_week: day, instance })
pushNthDay(result, day, instance) ==
    IF ~day.ok THEN day
    ELSE Ok([result EXCEPT
                !.nthDays = Append(@, [day_of_week |-> day.v,
                                       instance |-> instance])])

\* result.steps.push(parseStep(subPart, field))
pushStep(result, step) ==
    IF ~step.ok THEN step ELSE Ok([result EXCEPT !.steps = Append(@, step.v)])

\* addUniqueRanges(result.ranges, [parseRange(subPart, field)])
pushRange(result, range) ==
    IF ~range.ok THEN range
    ELSE Ok([result EXCEPT !.ranges = addUniqueRanges(@, range.v)])

\* addUniqueValues(result.values, [parseValue(subPart, field)])
pushValue(result, value) ==
    IF ~value.ok THEN value
    ELSE Ok([result EXCEPT !.values = addUniqueValues(@, value.v)])

\* The nth-day branch once subPart is split on "#".
parseNthDay(result, subPart, field, dayStr, instanceStr) ==
    IF dayStr = "" \/ instanceStr = ""
    THEN Throw("Invalid nth day format [" \o subPart \o "] for field ["
               \o field \o "]. Expected format: \"day#instance\".")
    ELSE pushNthDay(result, parseValue(dayStr, field), parseInt(instanceStr))

\* The body of `for (const subPart of parts)`: the result so far with the
\* sub-part added, or the Error thrown.
parseSubPart(result, subPart, field) ==
    IF subPart = "l" /\ field = "day_of_month"
    THEN Ok([result EXCEPT !.lastDay = TRUE])
    ELSE IF subPart = "lw" /\ field = "day_of_month"
    THEN Ok([result EXCEPT !.lastWeekday = TRUE])
    ELSE IF endsWith(subPart, "w") /\ field = "day_of_month"
    THEN Ok([result EXCEPT
                !.nearestWeekdays = Append(@, parseInt(dropLast(subPart, 1)))])
    ELSE IF endsWith(subPart, "l") /\ field = "day_of_week"
    THEN pushLastDay(result, parseValue(dropLast(subPart, 1), field))
    ELSE IF strIncludes(subPart, "#") /\ field = "day_of_week"
    THEN parseNthDay(result, subPart, field, Nth(split(subPart, "#"), 1),
                     Nth(split(subPart, "#"), 2))
    ELSE IF strIncludes(subPart, "/")
    THEN pushStep(result, parseStep(subPart, field))
    ELSE IF strIncludes(subPart, "-")
    THEN pushRange(result, parseRange(subPart, field))
    ELSE pushValue(result, parseValue(subPart, field))

RECURSIVE parseSubParts(_, _, _)
\* The loop over the sub-parts, result being Ok(the CronMatch so far).
parseSubParts(result, parts, field) ==
    IF ~result.ok \/ parts = <<>> THEN result
    ELSE parseSubParts(parseSubPart(result.v, parts[1], field), Tail(parts), field)

parseField(part, field) ==
    IF part = "*" THEN Ok(AnyMatch)
    ELSE IF part = "?" THEN Ok(OmitMatch)
    ELSE parseSubParts(
             Ok(EmptyMatch),
             split(toLowerCase(IF field = "day_of_week"
                               THEN normalizeDayNames(part, 1) ELSE part), ","),
             field)

\* A variant of parseFields that returns, next to the error, the fields
\* parsed before it; ParseTotal does not hold of it.
parseFieldsPartial(expression, minute, hour, day_of_month, month, day_of_week) ==
    IF \A f \in {minute, hour, day_of_month, month, day_of_week} : f.ok
    THEN [success |-> TRUE, pattern |-> expression,
          expression |-> [minute |-> minute.v, hour |-> hour.v,
                          day_of_month |-> day_of_month.v,
                          month |-> month.v,
                          day_of_week |-> day_of_week.v]]
    ELSE [success |-> FALSE, pattern |-> expression,
          expression |-> [f \in {"minute"} |-> minute],
          error |-> "Invalid cron expression [" \o expression \o "]. "]

\* The try block of parse: the first Error thrown by a field, in the order
\* the fields are parsed, or the expression.
parseFields(expression, minute, hour, day_of_month, month, day_of_week) ==
    IF \A f \in {minute, hour, day_of_month, month, day_of_week} : f.ok
    THEN [success |-> TRUE, pattern |-> expression,
          expression |-> [minute |-> minute.v, hour |-> hour.v,
                          day_of_month |-> day_of_month.v,
                          month |-> month.v,
                          day_of_week |-> day_of_week.v]]
    ELSE [success |-> FALSE, pattern |-> expression,
          error |-> "Invalid cron expression [" \o expression \o "]. "
                    \o (IF ~minute.ok THEN minute.error
                        ELSE IF ~hour.ok THEN hour.error
                        ELSE IF ~day_of_month.ok THEN day_of_month.error
                        ELSE IF ~month.ok THEN month.error
                        ELSE day_of_week.error)]

\* A variant of parseParts that lets a sixth field through and ignores it;
\* FieldCount does not hold of it.
parsePartsSix(expression, parts) ==
    IF Len(parts) < 4 \/ Len(parts) > 6
    THEN [success |-> FALSE, pattern |-> expression,
          error |-> "Invalid cron expression [" \o expression
                    \o "]. Expected [4 to 5] fields but found ["
                    \o ToString(Len(parts)) \o "] fields."]
    ELSE parseFields(expression,
                     parseField(parts[1], "minute"),
                     parseField(parts[2], "hour"),
                     parseField(parts[3], "day_of_month"),
                     parseField(parts[4], "month"),
                     IF Len(parts) >= 5 THEN parseField(parts[5], "day_of_week")
                     ELSE Ok(AnyMatch))

\* parse once the expression is split into parts.
parseParts(expression, parts) ==
    IF Len(parts) < 4 \/ Len(parts) > 5
    THEN [success |-> FALSE, pattern |-> expression,
          error |-> "Invalid cron expression [" \o expression
                    \o "]. Expected [4 to 5] fields but found ["
                    \o ToString(Len(parts)) \o "] fields."]
    ELSE parseFields(expression,
                     parseField(parts[1], "minute"),
                     parseField(parts[2], "hour"),
                     parseField(parts[3], "day_of_month"),
                     parseField(parts[4], "month"),
                     IF Len(parts) >= 5 THEN parseField(parts[5], "day_of_week")
                     ELSE Ok(AnyMatch))

parse(expression) ==
    IF expression = ""
    THEN [success |-> FALSE, pattern |-> expression, error |-> "Empty expression"]
    ELSE parseParts(expression, splitExpression(expression))

(***************************************************************************)
(* match.ts: getFutureMatches, one action per pass of its while loop       *)
(***************************************************************************)

\* new Date("y-m-dTh:mi:s.msZ")
DateOf(y, m, d, h, mi, s, ms) ==
    [year |-> y, month |-> m, date |-> d, hours |-> h, minutes |-> mi,
     seconds |-> s, ms |-> ms]

\* The destructuring defaults of getFutureMatches.
matchCountOf(o) == IF "matchCount" \in DOMAIN o THEN o.matchCount ELSE 2

maxLoopCountOf(o) == IF "maxLoopCount" \in DOMAIN o THEN o.maxLoopCount ELSE 1000

hasValidator(o) == "matchValidator" \in DOMAIN o

\* The validators of the test suite: (date) => date.getUTCHours() % 2 === 0
\* and (date) => date.getHours() !== 12.
matchValidator(o, date) ==
    IF o.matchValidator = "evenHours" THEN getHours(date) % 2 = 0
    ELSE getHours(date) # 12

\* A validator that never rejects.
acceptsAll(o, date) == TRUE

\* if (!matchValidator || matchValidator(currentDate))
accepts(o, date) == ~hasValidator(o) \/ matchValidator(o, date)

\* The largest matchCount and the largest explicit maxLoopCount of the options.
MaxMatchCount == 3

MaxLoopCount == 4

\* Start instants: month ends, a leap day, a year end, the minute 59 and the
\* hour 23, and instants with seconds and milliseconds.
StartDates ==
    {DateOf(2024, 1, 1, 0, 0, 0, 0),
     DateOf(2024, 1, 15, 9, 0, 0, 0),
     DateOf(2024, 1, 26, 0, 0, 0, 0),
     DateOf(2024, 1, 30, 23, 45, 0, 0),
     DateOf(2024, 2, 29, 5, 59, 0, 0),
     DateOf(2024, 7, 1, 0, 30, 0, 0),
     DateOf(2024, 12, 31, 23, 59, 30, 0),
     DateOf(2025, 3, 2, 12, 0, 0, 500)}

\* Expressions whose every advance is short, searched with every option.
SearchInputs ==
    {"* * * * *", "*/15 * * * *", "0 9 * * 1-5", "0 * * * *", "0 9 15 * 5",
     "* * * * 1", "30,0-5 * * * *", "0,59 5 * * *", "*/0 * * * *",
     "0 0 ? * 1#1,5L", "0 0 ? * 5L", "0 0 ? * 5#3", "0 0 L * *",
     "0 0 LW * *", "0 0 15W,1W * *", "0 0 * 2 *", "0 0 1 1", "@weekly",
     "*/-100 * * * *", "0 12 * 1-6/-1 *"}

\* Expressions that never or rarely match, searched with a small budget.
SparseInputs == {"0 0 30 2 *", "0 0 29 2 *", "0 0 31 4,6 *", "0 0 0W * */0"}

\* The start instants searched with the default options (matchCount 2,
\* maxLoopCount 1000).
DefaultStartDates ==
    {DateOf(2024, 1, 1, 0, 0, 0, 0), DateOf(2024, 12, 31, 23, 59, 30, 0)}

AllOptions ==
    {[startAt |-> s] : s \in DefaultStartDates}
    \cup {[startAt |-> s, matchCount |-> c, maxLoopCount |-> l] :
            s \in StartDates, c \in {1, MaxMatchCount}, l \in {1, MaxLoopCount}}
    \cup {[startAt |-> s, matchCount |-> MaxMatchCount,
           maxLoopCount |-> MaxLoopCount, matchValidator |-> v] :
            s \in StartDates, v \in {"evenHours", "notNoon"}}

SmallOptions ==
    {[startAt |-> s, matchCount |-> c, maxLoopCount |-> MaxLoopCount] :
        s \in DefaultStartDates, c \in {1, MaxMatchCount}}

Unset == [success |-> FALSE, pattern |-> "", error |-> ""]

\* No function of match.ts is called by itself.
NoCall == [fn |-> "none"]

Init ==
    /\ \/ input \in SearchInputs /\ options \in AllOptions
       \/ input \in SparseInputs /\ options \in SmallOptions
    /\ parsed = Unset
    /\ matches = <<>>
    /\ currentDate = options.startAt
    /\ loopCount = 0
    /\ lastScan = 0
    /\ consulted = <<>>
    /\ args = NoCall
    /\ returnValue = NoCall
    /\ pc = "start"

\* const result = parse(input)
Parse ==
    /\ pc = "start"
    /\ parsed' = parse(input)
    /\ pc' = "parsed"
    /\ UNCHANGED <<input, options, matches, currentDate, loopCount, lastScan,
                   consulted, args, returnValue>>

\* getFutureMatches(result.expression, options), up to its while loop.
Call ==
    /\ pc = "parsed"
    /\ parsed.success
    /\ matches' = <<>>
    /\ currentDate' = setMilliseconds(options.startAt, 0)
    /\ loopCount' = 0
    /\ consulted' = <<>>
    /\ pc' = "loop"
    /\ UNCHANGED <<input, parsed, options, lastScan, args, returnValue>>

\* One pass of `while (matches.length < matchCount && loopCount < maxLoopCount)`.
Loop ==
    /\ pc = "loop"
    /\ Len(matches) < matchCountOf(options)
    /\ loopCount < maxLoopCountOf(options)
    /\ loopCount' = loopCount + 1
    /\ matches' =
          IF /\ isTimeMatch(parsed.expression, currentDate)
             /\ accepts(options, currentDate)
          THEN Append(matches, currentDate)
          ELSE matches
    /\ consulted' =
          IF isTimeMatch(parsed.expression, currentDate) /\ hasValidator(options)
          THEN Append(consulted, currentDate)
          ELSE consulted
    /\ \E next \in {getNextValidDate(currentDate, parsed.expression)} :
           /\ currentDate' = next.date
           /\ lastScan' = next.scanned
           /\ pc' = IF next.diverges THEN "hang" ELSE "loop"
    /\ UNCHANGED <<input, parsed, options, args, returnValue>>

\* return matches
Return ==
    /\ pc = "loop"
    /\ ~(Len(matches) < matchCountOf(options) /\ loopCount < maxLoopCountOf(options))
    /\ pc' = "done"
    /\ UNCHANGED <<input, parsed, options, matches, currentDate, loopCount, lastScan,
                   consulted, args, returnValue>>

Next == Parse \/ Call \/ Loop \/ Return

Spec == Init /\ [][Next]_vars

(***************************************************************************)
(* The parser alone, over a larger set of inputs                           *)
(***************************************************************************)

MacroInputs ==
    {"@yearly", "@monthly", "@weekly", "@daily", "@hourly", "@minutely"}

\* Inputs by field count, with and without surrounding or repeated blanks,
\* and the inputs that begin with "@".
LiteralInputs ==
    {"", " ", "   ", "*", "* *", "* * *", "* * * *", "* * * * *",
     "* * * * * *", "0 0 1 1", "  0 0  1 1  ", " * * * * * ",
     "0 0 1 1 * * *", "@DAILY", "@Weekly", "@YEARLY", " @daily", "@daily ",
     " @hourly ", "@foo", "@", "@daily * * * *", "@annually",
     "@daily @daily @daily @daily", "* * * @daily"}

MinuteTokens == {"*", "0", "*/15", "60", "x"}

DayOfMonthTokens == {"*", "?", "L", "15W", "32"}

DayOfWeekTokens == {"*", "?", "1-5", "5L", "1#1,5L", "SUN", "8"}

FieldInputs ==
    {mi \o " 0 " \o dom \o " * " \o dow :
        mi \in MinuteTokens, dom \in DayOfMonthTokens, dow \in DayOfWeekTokens}

\* The spellings of the day_of_week alias of value i - 1.
AliasSpellings ==
    <<{"sun", "SUN", "Sun"}, {"mon", "MON", "Mon"}, {"tue", "TUE", "Tue"},
      {"wed", "WED", "Wed"}, {"thu", "THU", "Thu"}, {"fri", "FRI", "Fri"},
      {"sat", "SAT", "Sat"}>>

AliasWords == UNION {AliasSpellings[i] : i \in DOMAIN AliasSpellings}

\* An alias alone, after a number, before a number, as the head of the
\* <d>L and <d>#<k> forms, and one alias in its three spellings.
AliasInputs ==
    {"* * * * " \o w \o t : w \in AliasWords, t \in {"", "l", "L", "#2", ",3"}}
    \cup {"* * * * 3," \o w : w \in AliasWords}
    \cup {"* * * * SUN,sun,Sun", "* * * * MON,mon,Mon", "* * * * sat,SAT",
          "* * * * fri,sun", "* * * * sun-sat", "* * * * MON-FRI",
          "* * * JAN,feb,Mar *", "* * * jan-DEC *", "* * * dec/2 *"}

\* Values, ranges and steps inside and outside the range of their field,
\* in and out of order, and tokens that are no integer literal.
ValueInputs ==
    {"5,1,3 * * * *", "1,1 * * * *", "59,0,30,0 * * * *", "0,59 23,0 31,1 12,1 6,0",
     "* * ? * 7,0", "* * ? * 0,7", "* * ? * 6,7,1", "* * ? * 7",
     "* * * 3,constructor,5,1 *", "* * * constructor *", "* * * * __proto__",
     "* * * constructor-5 *", "* * * * constructor/2",
     "60 * ? * *", "* 24 * * *", "* * 0 * *", "* * 32 * *", "* * * 0 *",
     "* * * 13 *", "* * * * 8", "0-60 * * * *", "60/5 * * * *", "0-60/5 * * * *",
     "* * 0-5 * *", "* * * * 8L", "* * * * 8#1", "* * * * 6-8", "* 23-24 * * *",
     "0 0 32W * *", "0 0 99W * *", "0 0 0W * *", "0 0 31W * *", "0 0 1W,15W * *",
     "* * * * */2", "* * * * 1/2", "* * * * 1-5/2", "*/5 */2 */3 */4 *",
     "0-59/5 0-23 1-31 1-12 0-6", "10-59/10 * * * *",
     "* * * * 5-7", "* * * * 0-7", "* * * * 7-7", "* * * * 1-5", "30-10 * * * *",
     "10-30 * * * *", "10-10 * * * *", "* 20-4 * * *", "* * * 11-2 *",
     "0-12,20-30,0-12 * * * *", "* * ? * 1#9", "* * ? * 1#0", "* * ? * 5#3",
     "5x * * * *", "1.5 * * * *", "*/abc * * * *", "*/-5 * * * *", "*/0 * * * *",
     "*/1.5 * * * *", "*/5x * * * *", "abc * * * *", "1-5x * * * *", "1x-5 * * * *",
     "0 0 1.5w * *", "0 0 xw * *", "* * * foo *", "* * * jan *", "-5 * * * *",
     "5- * * * *", "/5 * * * *", "5/ * * * *", "1-/5 * * * *", "5-10/-2 * * * *",
     "* * ? * x#1", "* * ? * 1#x", "* * ? * #1", "* * ? * 1#"}

\* `?`, `*` and the extensions of one field, in every field.
PlacementInputs ==
    {"? * * * *", "* ? * * *", "* * ? * *", "* * * ? *", "* * * * ?",
     "* * ? * ?", "? ? ? ? ?", "*,5 * * * *", "5,* * * * *", "?,5 * * * *",
     "* * ?,L * *", "* * *,? * *", "* * * * ?,1", "* * * * *,1",
     "L * * * *", "* L * * *", "* * L * *", "* * * L *", "* * * * L",
     "LW * * * *", "* LW * * *", "* * LW * *", "* * * LW *", "* * * * LW",
     "5W * * * *", "* 5W * * *", "* * 5W * *", "* * * 5W *", "* * * * 5W",
     "5#3 * * * *", "* 5#3 * * *", "* * 5#3 * *", "* * * 5#3 *", "* * * * 5#3",
     "5L * * * *", "* 5L * * *", "* * 5L * *", "* * * 5L *", "* * * * 5L",
     "W * * * *", "* * W * *", "* * * * W", "# * * * *", "* * * * #",
     "0 0 L,LW,15W,1-5,*/10,20 * *", "0 0 ? * 1#1,5L,0,1-2,*/3"}

\* Fields of several ranges: in and out of order, repeated, overlapping,
\* one inside another, and next to single values.
RangeInputs ==
    {"0-12,20-30 * * * *", "20-30,0-12 * * * *",
     "20-30,0-12,0-12,20-30 * * * *", "0-12,20-30,0-12 * * * *",
     "20-30,0-12,55,56 * * * *", "0-10,5-15 * * * *", "5-10,0-20 * * * *",
     "0-5,6-10 * * * *", "* 9-17,9-17,0-3,9-17 * * *",
     "* * * * 1-5,0-2,1-5", "* * 10-20,1-31,10-20 * *",
     "* * * 6-8,1-3,6-8,1-3 *"}

ParseInputs ==
    MacroInputs \cup LiteralInputs \cup FieldInputs \cup AliasInputs
    \cup ValueInputs \cup PlacementInputs \cup RangeInputs

ParseInit ==
    /\ input \in ParseInputs
    /\ options = [startAt |-> DateOf(2024, 1, 1, 0, 0, 0, 0)]
    /\ parsed = Unset
    /\ matches = <<>>
    /\ currentDate = options.startAt
    /\ loopCount = 0
    /\ lastScan = 0
    /\ consulted = <<>>
    /\ args = NoCall
    /\ returnValue = NoCall
    /\ pc = "start"

ParseNext == Parse

ParseSpec == ParseInit /\ [][ParseNext]_vars

(***************************************************************************)
(* The functions of match.ts called by themselves, each on matchers that   *)
(* parseField returns and on the dates of a range of months                *)
(***************************************************************************)

\* Months of every length beginning on every day of the week: the months of
\* 2018 to 2027 and the Februaries of the leap years 2000 to 2016.
ProbeMonths ==
    {<<y, m>> : y \in 2018..2027, m \in 1..12}
    \cup {<<y, 2>> : y \in {2000, 2004, 2008, 2012, 2016}}

\* Targets of <n>W, inside and outside the month.
NearestWeekdayTargets == (0..33) \cup {99}

\* One month of each length beginning on each day of the week.
MonthShapes ==
    {CHOOSE ym \in ProbeMonths :
         /\ DaysInMonthOf(ym[1], ym[2]) = D
         /\ getDay(DateOf(ym[1], ym[2], 1, 0, 0, 0, 0)) = w :
     D \in 28..31, w \in 0..6}

\* Every day, at noon, of the months of MonthShapes.
ShapeDays ==
    UNION {{DateOf(ym[1], ym[2], d, 12, 0, 0, 0) :
               d \in 1..DaysInMonthOf(ym[1], ym[2])} : ym \in MonthShapes}

\* <d>#<k> for every day of the week and the instances 0 to 6.
NthDayTokens ==
    {ToString(d) \o "#" \o ToString(k) : d \in 0..6, k \in 0..6}

\* Fields with steps: every form of the head, steps of 0, and the steps
\* parseStep takes from `-5`, `-2` and `abc`.
StepTokens ==
    [minute |-> {"*/15", "*/7", "10/5", "10-30/5", "0-20/10", "0/5,1/5",
                 "*/0", "5/0", "5-10/0", "*/0,*/20", "*/-5", "5-10/-2",
                 "*/abc"},
     day_of_week |-> {"*/2", "1/2", "1-5/2", "*/0", "1-7/2", "2/3"}]

\* Minute and hour fields made of values, ranges and steps, alone and
\* together, in and out of ascending order; `*` and `?`.
TimeTokens ==
    [minute |-> {"*", "?", "5,10,15", "0,59", "10-20", "0-12,20-30",
                 "20-30,0-12", "*/15", "10/20", "0/5,1/5", "1/5,0/5", "30,0-5",
                 "0-5,30", "40,*/15", "50-55,*/20", "*/0", "*/0,*/20"},
     hour |-> {"*", "?", "9", "9,17", "9-17", "20-23,0-3", "*/6", "12,0-5",
               "22-23,*/8"}]

\* Expressions of getNextValidDate: a minute field that accepts 59, minute
\* fields of values and of steps, hours and days that end before the day and
\* the week do, and month fields of one and of several months.
CursorInputs ==
    {"* * * * 1", "* 9-17 * * *", "0,59 * * * *", "*/15 * * * *",
     "30 * * * *", "5,10,15 9 * * *", "0 9 * * 1-5", "30 9,17 * * *",
     "* * 15 * *", "0 0 * 4 *", "0 0 * 2 *", "30 6 * 6,9 *", "0 0 * 1 *",
     "0 0 15 4 *", "0 0 * 4-6 *", "0 12 * */5 *"}

\* Cursors: the first, a middle and the last days of months of 28 to 31
\* days and of a year, at the first and last minutes of hours and of the day.
CursorDates ==
    {DateOf(ymd[1], ymd[2], ymd[3], hm[1], hm[2], 0, 0) :
        ymd \in {<<2024, 1, 1>>, <<2024, 1, 15>>, <<2024, 1, 30>>,
                 <<2024, 1, 31>>, <<2024, 2, 29>>, <<2024, 3, 30>>,
                 <<2024, 3, 31>>, <<2024, 4, 30>>, <<2024, 5, 31>>,
                 <<2024, 8, 29>>, <<2024, 12, 31>>, <<2025, 1, 28>>,
                 <<2025, 2, 28>>},
        hm \in {<<0, 0>>, <<9, 0>>, <<9, 14>>, <<9, 30>>, <<9, 58>>,
                <<9, 59>>, <<17, 59>>, <<22, 59>>, <<23, 0>>, <<23, 45>>,
                <<23, 58>>, <<23, 59>>}}

\* The calls: resolveNearestWeekday on every target in every month;
\* isFieldMatch as isTimeMatch calls it, for day_of_week on every day of the
\* months of MonthShapes and for the fields with steps on every value of the
\* field; getFirstValidFieldValue and getNextValidField as getNextValidDate
\* calls them for hour and minute; getNextValidDate on the cursors.  token
\* is the field of the expression that parseField has turned into match.
CallInit ==
    /\ \/ \E d \in NearestWeekdayTargets, ym \in ProbeMonths :
              args = [fn |-> "resolveNearestWeekday", targetDay |-> d,
                      date |-> DateOf(ym[1], ym[2], 15, 0, 0, 0, 0)]
       \/ \E t \in NthDayTokens :
              \E m \in {parseField(t, "day_of_week").v} :
                  \E date \in ShapeDays :
                      args = [fn |-> "isFieldMatch", token |-> t,
                              value |-> getDay(date), match |-> m,
                              field |-> "day_of_week", date |-> date]
       \/ \E f \in DOMAIN StepTokens : \E t \in StepTokens[f] :
              \E m \in {parseField(t, f).v} :
                  \E v \in FIELD_INFO[f].min..FIELD_INFO[f].max :
                      args = [fn |-> "isFieldMatch", token |-> t, value |-> v,
                              match |-> m, field |-> f,
                              date |-> DateOf(2024, 1, 1, 0, 0, 0, 0)]
       \/ \E f \in DOMAIN TimeTokens : \E t \in TimeTokens[f] :
              args = [fn |-> "getFirstValidFieldValue", token |-> t,
                      match |-> parseField(t, f).v, field |-> f,
                      min |-> FIELD_INFO[f].min, max |-> FIELD_INFO[f].max]
       \/ \E f \in DOMAIN TimeTokens : \E t \in TimeTokens[f] :
              \E m \in {parseField(t, f).v} :
                  \E v \in FIELD_INFO[f].min..FIELD_INFO[f].max :
                      args = [fn |-> "getNextValidField", token |-> t,
                              currentValue |-> v, match |-> m, field |-> f,
                              min |-> FIELD_INFO[f].min,
                              max |-> FIELD_INFO[f].max, wrapAround |-> TRUE]
       \/ \E i \in CursorInputs :
              \E e \in {parse(i).expression} :
                  \E date \in CursorDates :
                      args = [fn |-> "getNextValidDate", input |-> i,
                              date |-> date, expression |-> e]
    /\ returnValue = NoCall
    /\ input = ""
    /\ options = [startAt |-> DateOf(2024, 1, 1, 0, 0, 0, 0)]
    /\ parsed = Unset
    /\ matches = <<>>
    /\ currentDate = options.startAt
    /\ loopCount = 0
    /\ lastScan = 0
    /\ consulted = <<>>
    /\ pc = "call"

Returned(value) ==
    /\ returnValue' = value
    /\ pc' = "returned"
    /\ UNCHANGED <<input, parsed, options, matches, currentDate, loopCount,
                   lastScan, consulted, args>>

CallResolveNearestWeekday ==
    /\ pc = "call"
    /\ args.fn = "resolveNearestWeekday"
    /\ Returned(resolveNearestWeekday(args.targetDay, args.date))

CallIsFieldMatch ==
    /\ pc = "call"
    /\ args.fn = "isFieldMatch"
    /\ Returned(isFieldMatch(args.value, args.match, args.field, args.date))

CallGetFirstValidFieldValue ==
    /\ pc = "call"
    /\ args.fn = "getFirstValidFieldValue"
    /\ Returned(getFirstValidFieldValue(args.match, args.min, args.max))

CallGetNextValidField ==
    /\ pc = "call"
    /\ args.fn = "getNextValidField"
    /\ Returned(getNextValidField(args.currentValue, args.match, args.min,
                                  args.max, args.wrapAround))

CallGetNextValidDate ==
    /\ pc = "call"
    /\ args.fn = "getNextValidDate"
    /\ Returned(getNextValidDate(args.date, args.expression))

CallNext ==
    \/ CallResolveNearestWeekday
    \/ CallIsFieldMatch
    \/ CallGetFirstValidFieldValue
    \/ CallGetNextValidField
    \/ CallGetNextValidDate

CallSpec == CallInit /\ [][CallNext]_vars

(***************************************************************************)
(* Properties of the search: getFutureMatches and getNextValidDate         *)
(***************************************************************************)

\* The days after the cursor on which the matcher properties are probed.
ProbeDays == 7

isWholeMinute(d) == d.seconds = 0 /\ d.ms = 0

\* The day rule of the specification's truth table over dom_any and dow_any.
DayRule(E, d) ==
    LET dom_any == E.day_of_month.all \/ E.day_of_month.omit
        dow_any == E.day_of_week.all \/ E.day_of_week.omit
        dom == isFieldMatch(getDate(d), E.day_of_month, "day_of_month", d)
        dow == isFieldMatch(getDay(d), E.day_of_week, "day_of_week", d)
    IN  \/ dom_any /\ dow_any
        \/ ~dom_any /\ dow_any /\ dom
        \/ dom_any /\ ~dow_any /\ dow
        \/ ~dom_any /\ ~dow_any /\ (dom \/ dow)

\* No whole minute strictly between the instants a and b matches E.  Only
\* the days whose month and day rule hold are searched minute by minute.
NoMatchBetween(E, a, b) ==
    \A dn \in DayOf(a)..DayOf(b) :
        (/\ isFieldMatch(getMonth(MakeDate(dn, 0, 0, 0)) + 1, E.month, "month",
                         MakeDate(dn, 0, 0, 0))
         /\ DayRule(E, MakeDate(dn, 0, 0, 0)))
        => \A m \in 0..1439 :
               (/\ Before(a, MakeDate(dn, m, 0, 0))
                /\ Before(MakeDate(dn, m, 0, 0), b))
               => ~isTimeMatch(E, MakeDate(dn, m, 0, 0))

\* C1: without a matchValidator, no whole minute strictly between two
\* consecutive emitted instants matches the expression, and no whole minute
\* strictly between the cursor and the instant getNextValidDate returns for
\* it matches the expression.
NoSkip ==
    (pc \in {"loop", "done"} /\ ~hasValidator(options))
    => /\ \A i \in 1..(Len(matches) - 1) :
              NoMatchBetween(parsed.expression, matches[i], matches[i + 1])
       /\ (/\ pc = "loop"
           /\ Len(matches) < matchCountOf(options)
           /\ loopCount < maxLoopCountOf(options))
          => NoMatchBetween(parsed.expression, currentDate,
                            getNextValidDate(currentDate, parsed.expression).date)

\* C2: for every options, the emitted instants are strictly ascending and
\* each of them matches the expression.
AscendingMatches ==
    pc \in {"loop", "hang", "done"}
    => \A i \in 1..Len(matches) :
           /\ isTimeMatch(parsed.expression, matches[i])
           /\ i > 1 => Before(matches[i - 1], matches[i])

\* C3: a search from a matching whole-minute startAt with matchCount 1 and a
\* maxLoopCount of at least 1 returns exactly that instant, and no emitted
\* instant is earlier than startAt.
StartAtInclusive ==
    /\ (/\ pc = "done"
        /\ ~hasValidator(options)
        /\ matchCountOf(options) = 1
        /\ maxLoopCountOf(options) >= 1
        /\ isWholeMinute(options.startAt)
        /\ isTimeMatch(parsed.expression, options.startAt))
       => matches = <<options.startAt>>
    /\ pc \in {"loop", "hang", "done"}
       => \A i \in 1..Len(matches) : ~Before(matches[i], options.startAt)

\* C4: every call of getNextValidDate returns, having scanned at most 4 * 366
\* days; the loop makes at most maxLoopCount passes and emits at most
\* matchCount instants; and getFutureMatches returns what it found as soon
\* as the budget is exhausted or matchCount is reached.
BoundedSearch ==
    /\ pc # "hang"
    /\ lastScan <= 4 * 366
    /\ loopCount <= maxLoopCountOf(options)
    /\ Len(matches) <= matchCountOf(options)
    /\ pc = "done" => \/ loopCount = maxLoopCountOf(options)
                      \/ Len(matches) = matchCountOf(options)

\* C5: isTimeMatch holds iff the minute, the hour and the month match their
\* matchers and the day rule of the truth table holds, on the cursor and on
\* the same time of the following days.
DayRuleTruthTable ==
    pc = "loop"
    => \A k \in 0..ProbeDays :
           isTimeMatch(parsed.expression, addDays(currentDate, k))
           = (/\ isFieldMatch(getMinutes(currentDate), parsed.expression.minute,
                              "minute", addDays(currentDate, k))
              /\ isFieldMatch(getHours(currentDate), parsed.expression.hour,
                              "hour", addDays(currentDate, k))
              /\ isFieldMatch(getMonth(addDays(currentDate, k)) + 1,
                              parsed.expression.month, "month",
                              addDays(currentDate, k))
              /\ DayRule(parsed.expression, addDays(currentDate, k)))

\* The cursor matches by its day of the week alone while both day fields are
\* constrained.
DayRuleTruthTableWitness ==
    /\ pc = "loop"
    /\ input = "0 9 15 * 5"
    /\ getDate(currentDate) # 15
    /\ getDay(currentDate) = 5
    /\ isTimeMatch(parsed.expression, currentDate)

\* The clauses of a matcher, each taken alone, as the specification states
\* them.
AnyClauseAccepts(v, match, field, date) ==
    \/ match.all
    \/ match.omit
    \/ includes(match.values, v)
    \/ \E i \in DOMAIN match.ranges :
           match.ranges[i].from <= v /\ v <= match.ranges[i].to
    \/ \E i \in DOMAIN match.steps :
           /\ match.steps[i].step > 0
           /\ match.steps[i].from <= v /\ v <= match.steps[i].to
           /\ (v - match.steps[i].from) % match.steps[i].step = 0
    \/ /\ field = "day_of_month"
       /\ \/ match.lastDay /\ v = getDate(endOfMonth(date))
          \/ match.lastWeekday /\ v = getLastWeekdayOfMonth(date)
          \/ \E i \in DOMAIN match.nearestWeekdays :
                 v = resolveNearestWeekday(match.nearestWeekdays[i], date)
    \/ /\ field = "day_of_week"
       /\ \/ \E i \in DOMAIN match.nthDays : nthDayMatches(match.nthDays[i], date)
          \/ /\ includes(match.lastDays, v)
             /\ getDate(date) = getDate(LastOccurrenceFrom(endOfMonth(date), v))

\* C6: a day_of_month or day_of_week matcher matches a value iff at least
\* one of its clauses accepts it, on the cursor and on the following days.
AnyClauseMatches ==
    pc = "loop"
    => \A k \in 0..ProbeDays :
           /\ isFieldMatch(getDate(addDays(currentDate, k)),
                           parsed.expression.day_of_month, "day_of_month",
                           addDays(currentDate, k))
              = AnyClauseAccepts(getDate(addDays(currentDate, k)),
                                 parsed.expression.day_of_month, "day_of_month",
                                 addDays(currentDate, k))
           /\ isFieldMatch(getDay(addDays(currentDate, k)),
                           parsed.expression.day_of_week, "day_of_week",
                           addDays(currentDate, k))
              = AnyClauseAccepts(getDay(addDays(currentDate, k)),
                                 parsed.expression.day_of_week, "day_of_week",
                                 addDays(currentDate, k))

(***************************************************************************)
(* Properties of the parser                                                *)
(***************************************************************************)

\* C7: parse returns either success with an expression of all five fields
\* and no error, or failure with an error message and no expression, and in
\* both cases the pattern is the input unchanged.
ParseTotal ==
    pc = "parsed"
    => /\ parsed.pattern = input
       /\ IF parsed.success
          THEN /\ DOMAIN parsed = {"success", "pattern", "expression"}
               /\ DOMAIN parsed.expression =
                      {CronFields[i] : i \in DOMAIN CronFields}
               /\ \A f \in DOMAIN parsed.expression :
                      DOMAIN parsed.expression[f] = DOMAIN EmptyMatch
          ELSE /\ DOMAIN parsed = {"success", "pattern", "error"}
               /\ Len(parsed.error) > 0

\* A field of a five-field input failed: the result carries the error and
\* the input, and no expression.
ParseTotalWitness ==
    /\ pc = "parsed"
    /\ input = "0 0 * * 8"
    /\ ~parsed.success
    /\ parsed.pattern = "0 0 * * 8"

\* The number of maximal runs of non-blank characters of s.
CountFields(s) ==
    Cardinality({i \in 1..Len(s) :
                    /\ ~IsWhitespace(CharAt(s, i))
                    /\ (i = 1 \/ IsWhitespace(CharAt(s, i - 1)))})

\* The expansions tabulated in the specification.
TabulatedExpansion(macro) ==
    CASE macro = "@yearly" -> "0 0 1 1 *"
      [] macro = "@monthly" -> "0 0 1 * *"
      [] macro = "@weekly" -> "0 0 ? * 0"
      [] macro = "@daily" -> "0 0 * * *"
      [] macro = "@hourly" -> "0 * * * *"
      [] macro = "@minutely" -> "* * * * *"

\* What parse splits into fields: the expansion of a macro, or the input.
SplitSource(s) ==
    IF toLowerCase(s) \in MacroInputs THEN TabulatedExpansion(toLowerCase(s))
    ELSE s

\* C8: parse succeeds only on 4 or 5 fields; with 4 fields day_of_week is
\* Any; any other count n fails with the field-count message, and the empty
\* string fails with "Empty expression".
FieldCount ==
    pc = "parsed"
    => /\ parsed.success => CountFields(SplitSource(input)) \in {4, 5}
       /\ (parsed.success /\ CountFields(SplitSource(input)) = 4)
          => parsed.expression.day_of_week = AnyMatch
       /\ (input # "" /\ CountFields(SplitSource(input)) \notin {4, 5})
          => /\ ~parsed.success
             /\ parsed.error =
                  "Invalid cron expression [" \o input
                  \o "]. Expected [4 to 5] fields but found ["
                  \o ToString(CountFields(SplitSource(input))) \o "] fields."
       /\ input = "" => ~parsed.success /\ parsed.error = "Empty expression"

\* A four-field input parsed, with day_of_week Any.
FieldCountWitness ==
    /\ pc = "parsed"
    /\ input = "0 0 1 1"
    /\ parsed.success
    /\ parsed.expression.day_of_week = AnyMatch

\* C9: each of the six macros parses, to the expression its tabulated
\* expansion parses to, so that isTimeMatch agrees on them.
MacrosEqualExpansions ==
    (pc = "parsed" /\ input \in MacroInputs)
    => /\ parsed.success
       /\ parse(TabulatedExpansion(input)).success
       /\ parsed.expression = parse(TabulatedExpansion(input)).expression
       /\ \A d \in StartDates :
              isTimeMatch(parsed.expression, d)
              = isTimeMatch(parse(TabulatedExpansion(input)).expression, d)

\* @weekly parsed, with day_of_month omitted and day_of_week 0.
MacrosEqualExpansionsWitness ==
    /\ pc = "parsed"
    /\ input = "@weekly"
    /\ parsed.success
    /\ parsed.expression.day_of_month.omit
    /\ parsed.expression.day_of_week.values = <<0>>

\* C10: an input whose trimmed form is a macro in any letter case parses as
\* the macro's expansion, and every other input whose trimmed form begins
\* with "@" fails to parse.
TrimmedMacroLookup ==
    pc = "parsed"
    => IF toLowerCase(trim(input)) \in MacroInputs
       THEN /\ parsed.success
            /\ parsed.expression =
                   parse(TabulatedExpansion(toLowerCase(trim(input)))).expression
       ELSE startsWith(trim(input), "@") => ~parsed.success

\* The range of each field, as the specification tabulates it.
FieldRange(f) ==
    CASE f = "minute" -> 0..59
      [] f = "hour" -> 0..23
      [] f = "day_of_month" -> 1..31
      [] f = "month" -> 1..12
      [] f = "day_of_week" -> 0..6

Elements(seq) == {seq[i] : i \in DOMAIN seq}

\* Every number a matcher stores that refers to a value of its field.
StoredNumbers(m) ==
    Elements(m.values)
    \cup {m.ranges[i].from : i \in DOMAIN m.ranges}
    \cup {m.ranges[i].to : i \in DOMAIN m.ranges}
    \cup {m.steps[i].from : i \in DOMAIN m.steps}
    \cup {m.steps[i].to : i \in DOMAIN m.steps}
    \cup Elements(m.nearestWeekdays)
    \cup {m.nthDays[i].day_of_week : i \in DOMAIN m.nthDays}
    \cup Elements(m.lastDays)

\* C11: after a successful parse every number stored in a field matcher
\* (values, range endpoints, step from and to, nearestWeekdays targets,
\* nthDays weekday, lastDays weekday) lies within the range of its field.
StoredNumbersInRange ==
    (pc = "parsed" /\ parsed.success)
    => \A f \in DOMAIN parsed.expression :
           StoredNumbers(parsed.expression[f]) \subseteq FieldRange(f)

\* C12: after a successful parse every stored range has from <= to.
RangesOrdered ==
    (pc = "parsed" /\ parsed.success)
    => \A f \in DOMAIN parsed.expression :
           \A i \in DOMAIN parsed.expression[f].ranges :
               parsed.expression[f].ranges[i].from
               <= parsed.expression[f].ranges[i].to

\* C13: after a successful parse no matcher of minute, hour or month is
\* Omit, and a matcher that is Omit or Any carries no other clause.
OmitOnlyInDayFields ==
    (pc = "parsed" /\ parsed.success)
    => /\ \A f \in {"minute", "hour", "month"} : ~parsed.expression[f].omit
       /\ \A f \in DOMAIN parsed.expression :
              /\ parsed.expression[f].omit => parsed.expression[f] = OmitMatch
              /\ parsed.expression[f].all => parsed.expression[f] = AnyMatch

\* C14: every day_of_week alias, in every spelling, alone, before and after
\* a number, and as the head of the <d>L and <d>#<k> forms, parses to its
\* number; `SUN,sun,Sun` parses to the values [0].
AliasesParse ==
    pc = "parsed"
    => /\ \A i \in DOMAIN AliasSpellings : \A w \in AliasSpellings[i] :
              /\ input = "* * * * " \o w
                 => /\ parsed.success
                    /\ parsed.expression.day_of_week.values = <<i - 1>>
              /\ input \in {"* * * * 3," \o w, "* * * * " \o w \o ",3"}
                 => /\ parsed.success
                    /\ Elements(parsed.expression.day_of_week.values) = {3, i - 1}
              /\ input \in {"* * * * " \o w \o "l", "* * * * " \o w \o "L"}
                 => /\ parsed.success
                    /\ parsed.expression.day_of_week.lastDays = <<i - 1>>
              /\ input = "* * * * " \o w \o "#2"
                 => /\ parsed.success
                    /\ parsed.expression.day_of_week.nthDays
                       = <<[day_of_week |-> i - 1, instance |-> 2]>>
       /\ input = "* * * * SUN,sun,Sun"
          => parsed.success /\ parsed.expression.day_of_week.values = <<0>>

\* C15: the single values of every field are stored without duplicates in
\* ascending order, and `7,0` in day_of_week is stored as [0].
ValuesSortedUnique ==
    (pc = "parsed" /\ parsed.success)
    => /\ \A f \in DOMAIN parsed.expression :
              \A i, j \in DOMAIN parsed.expression[f].values :
                  i < j => /\ parsed.expression[f].values[i] \in Int
                           /\ parsed.expression[f].values[i] # ObjectRef
                           /\ parsed.expression[f].values[j] # ObjectRef
                           /\ parsed.expression[f].values[i]
                              < parsed.expression[f].values[j]
       /\ input \in {"* * ? * 7,0", "* * ? * 0,7"}
          => parsed.expression.day_of_week.values = <<0>>

\* Inputs with one numeric literal outside the range of its field: the
\* input, the literal, the field and the largest value of the field.
OutOfRangeCases ==
    {<<"60 * ? * *", "60", "minute", "59">>,
     <<"* 24 * * *", "24", "hour", "23">>,
     <<"* * 0 * *", "0", "day_of_month", "31">>,
     <<"* * 32 * *", "32", "day_of_month", "31">>,
     <<"* * * 0 *", "0", "month", "12">>,
     <<"* * * 13 *", "13", "month", "12">>,
     <<"* * * * 8", "8", "day_of_week", "6">>,
     <<"0-60 * * * *", "60", "minute", "59">>,
     <<"60/5 * * * *", "60", "minute", "59">>,
     <<"0-60/5 * * * *", "60", "minute", "59">>,
     <<"* 23-24 * * *", "24", "hour", "23">>,
     <<"* * 0-5 * *", "0", "day_of_month", "31">>,
     <<"* * * * 6-8", "8", "day_of_week", "6">>,
     <<"* * * * 8L", "8", "day_of_week", "6">>,
     <<"* * * * 8#1", "8", "day_of_week", "6">>,
     <<"0 0 32W * *", "32", "day_of_month", "31">>,
     <<"0 0 0W * *", "0", "day_of_month", "31">>}

\* C16: a numeric literal outside the range of its field makes parse fail
\* with the message that names the value and the field, and the day_of_week
\* literal 7 is accepted.
OutOfRangeRejected ==
    pc = "parsed"
    => /\ \A c \in OutOfRangeCases :
              input = c[1]
              => /\ ~parsed.success
                 /\ parsed.error
                    = "Invalid cron expression [" \o c[1] \o "]. Value ["
                      \o c[2] \o "] out of range for field [" \o c[3]
                      \o "]. It must be less than or equals to [" \o c[4] \o "]."
       /\ input = "* * ? * 7" => parsed.success

\* Inputs with a value, a range endpoint or a step that is neither an alias
\* nor a non-negative integer literal.
NonIntegerInputs ==
    {"5x * * * *", "1.5 * * * *", "abc * * * *", "1-5x * * * *", "1x-5 * * * *",
     "* * * foo *", "* * * constructor *", "* * * * __proto__",
     "*/abc * * * *", "*/-5 * * * *", "*/1.5 * * * *", "*/5x * * * *",
     "5-10/-2 * * * *"}

\* C17: a value, range endpoint or step token that is neither an alias nor
\* an integer literal makes parse fail, and so does a negative step.
NonIntegerRejected ==
    (pc = "parsed" /\ input \in NonIntegerInputs) => ~parsed.success

\* L, LW and <n>W outside day_of_month, and <d>#<k> and <d>L outside
\* day_of_week.
MisplacedInputs ==
    {"L * * * *", "* L * * *", "* * * L *", "* * * * L",
     "LW * * * *", "* LW * * *", "* * * LW *", "* * * * LW",
     "5W * * * *", "* 5W * * *", "* * * 5W *", "* * * * 5W",
     "5#3 * * * *", "* 5#3 * * *", "* * 5#3 * *", "* * * 5#3 *",
     "5L * * * *", "* 5L * * *", "* * 5L * *", "* * * 5L *"}

\* C18: an extension in a field it does not belong to makes parse fail.
MisplacedExtensionsRejected ==
    (pc = "parsed" /\ input \in MisplacedInputs) => ~parsed.success

\* C19: every instant emitted by getFutureMatches is a whole-minute instant,
\* its seconds and milliseconds zero, whatever the seconds of startAt.
EmittedWholeMinutes ==
    \A i \in DOMAIN matches : isWholeMinute(matches[i])

\* C20: with a matchValidator, every emitted instant satisfies isTimeMatch
\* and the validator; the validator is called only with instants that satisfy
\* isTimeMatch; the emitted instants are exactly the accepted ones among
\* those, so a rejected instant is neither emitted nor counted; and the
\* search ends only with matchCount instants emitted or the budget used up.
ValidatorFilters ==
    hasValidator(options)
    => /\ \A i \in DOMAIN matches :
              /\ isTimeMatch(parsed.expression, matches[i])
              /\ matchValidator(options, matches[i])
       /\ \A i \in DOMAIN consulted : isTimeMatch(parsed.expression, consulted[i])
       /\ LET accepted(d) == matchValidator(options, d)
          IN  matches = SelectSeq(consulted, accepted)
       /\ Len(matches) <= matchCountOf(options)
       /\ pc = "done"
          => \/ Len(matches) = matchCountOf(options)
             \/ loopCount = maxLoopCountOf(options)

\* A finished search in which the validator rejected an instant and an
\* instant after it was accepted and emitted.
ValidatorFiltersWitness ==
    /\ pc = "done"
    /\ hasValidator(options)
    /\ \E i, j \in DOMAIN consulted :
           /\ i < j
           /\ ~matchValidator(options, consulted[i])
           /\ matchValidator(options, consulted[j])
           /\ consulted[j] = matches[Len(matches)]

(***************************************************************************)
(* Properties of the functions of match.ts                                 *)
(***************************************************************************)

\* The day of the week (Sunday = 0) of day d of the month of date.
WeekdayOf(date, d) == getDay([date EXCEPT !.date = d])

\* C22: for every month and every target day, resolveNearestWeekday returns
\* a day of the same month that is Monday to Friday; it is the clamped target
\* when that is a weekday, and otherwise the day before a Saturday and the
\* day after a Sunday, except that a Saturday on day 1 gives day 3 and a
\* Sunday on the last day gives the day two before it.
NearestWeekdayRule ==
    (pc = "returned" /\ args.fn = "resolveNearestWeekday")
    => LET D == getDaysInMonth(args.date)
           c == Min2(Max2(args.targetDay, 1), D)
           w == WeekdayOf(args.date, c)
       IN  /\ returnValue \in 1..D
           /\ WeekdayOf(args.date, returnValue) \in 1..5
           /\ w \in 1..5 => returnValue = c
           /\ (w = 6 /\ c # 1) => returnValue = c - 1
           /\ (w = 6 /\ c = 1) => returnValue = 3
           /\ (w = 0 /\ c # D) => returnValue = c + 1
           /\ (w = 0 /\ c = D) => returnValue = D - 2

\* A target past the end of a month that ends on a Sunday, resolved to the
\* Friday before it.
NearestWeekdayRuleWitness ==
    /\ pc = "returned"
    /\ args.fn = "resolveNearestWeekday"
    /\ args.targetDay > getDaysInMonth(args.date)
    /\ WeekdayOf(args.date, getDaysInMonth(args.date)) = 0
    /\ returnValue = getDaysInMonth(args.date) - 2

\* The days of the month of date, up to day d, that fall on weekday dow.
OccurrencesUpTo(date, d, dow) == {e \in 1..d : WeekdayOf(date, e) = dow}

\* The days of the month of date that a day_of_week matcher accepts.
DaysAccepted(match, date) ==
    {e \in 1..getDaysInMonth(date) :
        isFieldMatch(WeekdayOf(date, e), match, "day_of_week",
                     [date EXCEPT !.date = e])}

\* C23: a clause <dow>#<instance> accepts a date iff the date falls on dow
\* and is the instance-th day of its month that does, which is
\* floor((day - first) / 7) + 1 = instance for first the first such day,
\* ((dow - weekday of day 1 + 7) mod 7) + 1; in every month an instance of 1
\* to 4 is accepted on exactly one day and the instance 5 on at most one.
NthDayRule ==
    (pc = "returned" /\ args.fn = "isFieldMatch" /\ Len(args.match.nthDays) = 1)
    => LET nth == args.match.nthDays[1]
           day == getDate(args.date)
           first == ((nth.day_of_week - WeekdayOf(args.date, 1) + 7) % 7) + 1
       IN  /\ returnValue
               = (/\ WeekdayOf(args.date, day) = nth.day_of_week
                  /\ Cardinality(OccurrencesUpTo(args.date, day, nth.day_of_week))
                       = nth.instance)
           /\ returnValue
               = (/\ WeekdayOf(args.date, day) = nth.day_of_week
                  /\ ((day - first) \div 7) + 1 = nth.instance)
           /\ (day = 1 /\ nth.instance \in 1..4)
              => Cardinality(DaysAccepted(args.match, args.date)) = 1
           /\ (day = 1 /\ nth.instance = 5)
              => Cardinality(DaysAccepted(args.match, args.date)) <= 1

\* The fifth Friday of a month, accepted on day 29 or later.
NthDayRuleWitness ==
    /\ pc = "returned"
    /\ args.fn = "isFieldMatch"
    /\ args.match.nthDays = <<[day_of_week |-> 5, instance |-> 5]>>
    /\ getDate(args.date) >= 29
    /\ returnValue = TRUE

\* C21: the parser accepts a step of 0 (`*/0` in day_of_week gives the
\* steps [{from 0, to 7, step 0}]); a step entry with step 0 accepts no
\* value, so a matcher made of such entries accepts none; and neither the
\* `%` of isFieldMatch nor the `/` of getNextValidField divides by 0.
StepZeroInert ==
    /\ (pc = "returned" /\ args.fn = "isFieldMatch" /\ args.match.steps # <<>>)
       => /\ args.token = "*/0"
             => args.match.steps
                  = <<[from |-> FIELD_INFO[args.field].min,
                       to |-> IF args.field = "day_of_week" THEN 7
                              ELSE FIELD_INFO[args.field].max,
                       step |-> 0]>>
          /\ \A i \in DOMAIN args.match.steps :
                 args.match.steps[i].step = 0
                 => ~stepMatches(args.match.steps[i], args.value)
          /\ (\A i \in DOMAIN args.match.steps : args.match.steps[i].step = 0)
             => returnValue = FALSE
          /\ 0 \notin stepModuloDivisors(args.match, args.value)
    /\ (pc = "returned" /\ args.fn = "getNextValidField"
          /\ ~args.match.all /\ args.match.values = <<>>
          /\ args.match.ranges = <<>>)
       => 0 \notin stepQuotientDivisors(args.match.steps, args.currentValue)

\* `*/0` in day_of_week asked about Sunday, the value 0 that equals from.
StepZeroInertWitness ==
    /\ pc = "returned"
    /\ args.fn = "isFieldMatch"
    /\ args.field = "day_of_week"
    /\ args.match.steps = <<[from |-> 0, to |-> 7, step |-> 0]>>
    /\ args.value = 0
    /\ returnValue = FALSE

\* Fields of one step: the token, the field, and from, to and step as written
\* (to is the largest value of the field, 7 for day_of_week, when not written).
StepCases ==
    {<<"*/15", "minute", 0, 59, 15>>, <<"*/7", "minute", 0, 59, 7>>,
     <<"10/5", "minute", 10, 59, 5>>, <<"10-30/5", "minute", 10, 30, 5>>,
     <<"0-20/10", "minute", 0, 20, 10>>, <<"*/0", "minute", 0, 59, 0>>,
     <<"5/0", "minute", 5, 59, 0>>, <<"5-10/0", "minute", 5, 10, 0>>,
     <<"*/-5", "minute", 0, 59, -5>>, <<"5-10/-2", "minute", 5, 10, -2>>,
     <<"*/2", "day_of_week", 0, 7, 2>>, <<"1/2", "day_of_week", 1, 7, 2>>,
     <<"1-5/2", "day_of_week", 1, 5, 2>>, <<"*/0", "day_of_week", 0, 7, 0>>,
     <<"2/3", "day_of_week", 2, 7, 3>>, <<"1-7/2", "day_of_week", 1, 7, 2>>}

\* C24: `*/s`, `a/s` and `a-b/s` are stored as one step entry with the from,
\* to and step that were written, to being the largest value of the field (7
\* for day_of_week) when it was not; the entry accepts v iff step > 0,
\* from <= v <= to and (v - from) mod step = 0.
StepRule ==
    (pc = "returned" /\ args.fn = "isFieldMatch")
    => \A c \in StepCases :
           (args.token = c[1] /\ args.field = c[2])
           => /\ args.match.steps = <<[from |-> c[3], to |-> c[4], step |-> c[5]]>>
              /\ returnValue
                   = (/\ c[5] > 0
                      /\ c[3] <= args.value
                      /\ args.value <= c[4]
                      /\ (args.value - c[3]) % c[5] = 0)

\* The values of min..max that a matcher accepts.
Accepted(match, field, min, max) ==
    {v \in min..max :
        isFieldMatch(v, match, field, DateOf(2024, 1, 1, 0, 0, 0, 0))}

Least(S) == CHOOSE x \in S : \A y \in S : x <= y

\* C26: getFirstValidFieldValue(matcher, min, max) returns the least of the
\* values of min..max that the matcher accepts, over all its values, ranges
\* and steps, and min for `*` and `?`; `30,0-5` gives 0.
FirstValueIsLeast ==
    (pc = "returned" /\ args.fn = "getFirstValidFieldValue")
    => /\ (args.match.all \/ args.match.omit) => returnValue = args.min
       /\ Accepted(args.match, args.field, args.min, args.max) # {}
          => returnValue
               = Least(Accepted(args.match, args.field, args.min, args.max))
       /\ (args.token = "30,0-5" /\ args.field = "minute") => returnValue = 0

\* C27: for a matcher made of values, ranges and steps in any stored order,
\* getNextValidField(current, matcher, min, max, true) returns the least
\* accepted value greater than current, and the least accepted value when
\* there is none.
NextValueIsLeast ==
    (pc = "returned" /\ args.fn = "getNextValidField"
       /\ ~args.match.all /\ ~args.match.omit
       /\ Accepted(args.match, args.field, args.min, args.max) # {})
    => LET acc == Accepted(args.match, args.field, args.min, args.max)
           later == {v \in acc : v > args.currentValue}
       IN  returnValue = IF later # {} THEN Least(later) ELSE Least(acc)

\* The ranges of the first field of RangeInputs that has ranges, as they
\* are written, a repeated range left out where it is repeated.
RangeCases ==
    {<<"0-12,20-30 * * * *", "minute", <<<<0, 12>>, <<20, 30>>>>>>,
     <<"20-30,0-12 * * * *", "minute", <<<<20, 30>>, <<0, 12>>>>>>,
     <<"20-30,0-12,0-12,20-30 * * * *", "minute", <<<<20, 30>>, <<0, 12>>>>>>,
     <<"0-12,20-30,0-12 * * * *", "minute", <<<<0, 12>>, <<20, 30>>>>>>,
     <<"20-30,0-12,55,56 * * * *", "minute", <<<<20, 30>>, <<0, 12>>>>>>,
     <<"0-10,5-15 * * * *", "minute", <<<<0, 10>>, <<5, 15>>>>>>,
     <<"5-10,0-20 * * * *", "minute", <<<<5, 10>>, <<0, 20>>>>>>,
     <<"0-5,6-10 * * * *", "minute", <<<<0, 5>>, <<6, 10>>>>>>,
     <<"* 9-17,9-17,0-3,9-17 * * *", "hour", <<<<9, 17>>, <<0, 3>>>>>>,
     <<"* * * * 1-5,0-2,1-5", "day_of_week", <<<<1, 5>>, <<0, 2>>>>>>,
     <<"* * 10-20,1-31,10-20 * *", "day_of_month", <<<<10, 20>>, <<1, 31>>>>>>,
     <<"* * * 6-8,1-3,6-8,1-3 *", "month", <<<<6, 8>>, <<1, 3>>>>>>}

\* C25: the ranges of a field are stored without a repeated (from, to) pair
\* and otherwise in the order in which they are written, the first of
\* several equal ranges keeping its place; they are neither sorted nor
\* merged.
RangesKeepOrder ==
    (pc = "parsed" /\ parsed.success)
    => /\ \A f \in DOMAIN parsed.expression :
              \A i, j \in DOMAIN parsed.expression[f].ranges :
                  i # j => parsed.expression[f].ranges[i]
                             # parsed.expression[f].ranges[j]
       /\ \A c \in RangeCases :
              input = c[1]
              => parsed.expression[c[2]].ranges
                   = [i \in DOMAIN c[3] |-> [from |-> c[3][i][1], to |-> c[3][i][2]]]

\* A field whose ranges are written out of order and twice each.
RangesKeepOrderWitness ==
    /\ pc = "parsed"
    /\ input = "20-30,0-12,0-12,20-30 * * * *"
    /\ parsed.success
    /\ Len(parsed.expression.minute.ranges) = 2

\* The month of d satisfies the month field of E.
MonthRule(E, d) == isFieldMatch(getMonth(d) + 1, E.month, "month", d)

\* C28: from a cursor HH:MM on a day that satisfies the month and the day
\* rule, getNextValidDate returns the next accepted minute of hour HH when
\* there is one; when there is none and hour HH+1 is accepted, it returns an
\* instant after the cursor and no later than the first accepted minute of
\* hour HH+1, also when MM = 59.
SameDayMinuteAdvance ==
    (pc = "returned" /\ args.fn = "getNextValidDate"
       /\ MonthRule(args.expression, args.date)
       /\ DayRule(args.expression, args.date))
    => LET acc == Accepted(args.expression.minute, "minute", 0, 59)
           later == {m \in acc : m > getMinutes(args.date)}
           nextHour == getHours(args.date) + 1
       IN  /\ later # {}
              => /\ ~returnValue.diverges
                 /\ returnValue.date = [args.date EXCEPT !.minutes = Least(later)]
           /\ (/\ later = {}
               /\ acc # {}
               /\ nextHour <= 23
               /\ isFieldMatch(nextHour, args.expression.hour, "hour", args.date))
              => /\ ~returnValue.diverges
                 /\ Before(args.date, returnValue.date)
                 /\ ~Before([args.date EXCEPT !.hours = nextHour,
                                              !.minutes = Least(acc)],
                            returnValue.date)

\* The days, counted from the day of d, among the next ProbeDays days that
\* satisfy the month and the day rule of E.
DaysAhead(E, d) ==
    {k \in 1..ProbeDays :
        /\ MonthRule(E, addDays(d, k))
        /\ DayRule(E, addDays(d, k))}

\* C29: from a cursor on a day that satisfies the month and the day rule,
\* at or after the last accepted hour and minute of that day,
\* getNextValidDate passes over no later day that satisfies them: it returns
\* an instant after the cursor and no later than the first accepted hour
\* and minute of the first such day; after 23:45 `*/15 * * * *` gives 00:00
\* of the following day.
CarryIntoDay ==
    (pc = "returned" /\ args.fn = "getNextValidDate"
       /\ MonthRule(args.expression, args.date)
       /\ DayRule(args.expression, args.date))
    => LET accH == Accepted(args.expression.hour, "hour", 0, 23)
           accM == Accepted(args.expression.minute, "minute", 0, 59)
       IN  (/\ accH # {}
            /\ accM # {}
            /\ \A h \in accH, m \in accM :
                   h * 60 + m <= MinuteOfDay(args.date)
            /\ DaysAhead(args.expression, args.date) # {})
           => /\ ~returnValue.diverges
              /\ Before(args.date, returnValue.date)
              /\ ~Before(MakeDate(DayOf(args.date)
                                    + Least(DaysAhead(args.expression, args.date)),
                                  Least(accH) * 60 + Least(accM), 0, 0),
                         returnValue.date)
              /\ (args.input = "*/15 * * * *" /\ MinuteOfDay(args.date) = 1425)
                 => returnValue.date = MakeDate(DayOf(args.date) + 1, 0, 0, 0)

\* The months, counted from the month of d, among the next 12 months that
\* satisfy the month field of E.
MonthsAhead(E, d) ==
    {k \in 1..12 :
        isFieldMatch(((getMonth(d) + k) % 12) + 1, E.month, "month", d)}

\* C30: from a cursor whose month and whose following day's month do not
\* satisfy the month field, getNextValidDate returns a day of the next month
\* that does, in the following year when that month is not later in the
\* year, and day 1 of it when both day fields are `*` or `?`; also from the
\* days 29 to 31.
MonthSkip ==
    (pc = "returned" /\ args.fn = "getNextValidDate"
       /\ ~MonthRule(args.expression, args.date)
       /\ ~MonthRule(args.expression, addDays(args.date, 1))
       /\ MonthsAhead(args.expression, addDays(args.date, 1)) # {})
    => LET d1 == addDays(args.date, 1)
           k == Least(MonthsAhead(args.expression, d1))
           index == getFullYear(d1) * 12 + getMonth(d1) + k
       IN  /\ ~returnValue.diverges
           /\ getFullYear(returnValue.date) = index \div 12
           /\ getMonth(returnValue.date) = index % 12
           /\ (isDayOfMonthAnyOf(args.expression)
                 /\ isDayOfWeekAnyOf(args.expression))
              => getDate(returnValue.date) = 1

====
